---------------------------- MODULE Spec2Model ----------------------------
(***************************************************************************)
(* A model of shapeOf (src/index.js): the chain builder returned by        *)
(* shapeOf(obj), the validator objects of the registry, and the recursive  *)
(* evaluation engine behind shouldBe / shouldBeExactly / shouldNotBe.      *)
(*                                                                         *)
(* JavaScript values are modelled by content.  Every value is a record of  *)
(* one shape, so that any two values can be compared:                      *)
(*   t    : the type tag ("undefined", "null", "number", "string",        *)
(*          "boolean", "array", "object", and "regexp" for a RegExp that   *)
(*          is an argument of a validator)                                 *)
(*   n    : the number (or 0/1 for a boolean)                              *)
(*   s    : the characters of a string (the source of a RegExp), one per   *)
(*          element                                                        *)
(*   keys : Object.keys of an object, in insertion order (the flags of a   *)
(*          RegExp)                                                        *)
(*   kids : the elements of an array / the values of an object             *)
(* The caller's input is a tree without aliasing, so an in-place change of *)
(* an object is modelled by handing the changed content back to whoever    *)
(* holds the reference (the field "obj" of every evaluation result).       *)
(***************************************************************************)
EXTENDS Integers, Sequences, FiniteSets, TLC

(***************************************************************************)
(* Bounds of the model.                                                    *)
(***************************************************************************)
MaxToggles == 3      \* chain calls made after shapeOf(obj)
MaxNum == 1          \* the numbers of the values are 0..MaxNum
MaxLen == 2          \* the flat arrays of the values have at most MaxLen elements
MaxVer == 2          \* the components of the version strings are 0..MaxVer

---------------------------------------------------------------------------
(***************************************************************************)
(* Values                                                                  *)
(***************************************************************************)
Val(t, n, s, keys, kids) == [t |-> t, n |-> n, s |-> s, keys |-> keys, kids |-> kids]

Undef == Val("undefined", 0, <<>>, <<>>, <<>>)

Null == Val("null", 0, <<>>, <<>>, <<>>)

Num(i) == Val("number", i, <<>>, <<>>, <<>>)

\* The number i + 0.5, a number that is not an integer.
Half(i) == Val("number", i, <<"5">>, <<>>, <<>>)

\* Twice a number, by which numbers are compared.
Twice(v) == 2 * v.n + Len(v.s)

\* _isInteger(val)
_isInteger(val) == val.t = "number" /\ val.s = <<>>

Str(cs) == Val("string", 0, cs, <<>>, <<>>)

Bool(b) == Val("boolean", IF b THEN 1 ELSE 0, <<>>, <<>>, <<>>)

Arr(kids) == Val("array", 0, <<>>, <<>>, kids)

Obj(keys, kids) == Val("object", 0, <<>>, keys, kids)

\* A RegExp object of the given source (literal characters) and flags.
RegExpOf(source, flags) == Val("regexp", 0, source, flags, <<>>)

\* typeof v !== 'undefined'
IsDef(v) == v.t # "undefined"

\* typeof v === 'object' (null and arrays included)
TypeofObject(v) == v.t \in {"null", "array", "object"}

\* JavaScript truthiness of a value
Truthy(v) ==
    CASE v.t \in {"undefined", "null"} -> FALSE
      [] v.t = "number" -> Twice(v) # 0
      [] v.t = "boolean" -> v.n = 1
      [] v.t = "string" -> Len(v.s) > 0
      [] OTHER -> TRUE

\* The property names of array indices 0..7, as Object.keys gives them.
IndexNames == <<"0", "1", "2", "3", "4", "5", "6", "7">>

\* Object.keys(v) for a non-null object or an array
ObjectKeys(v) ==
    IF v.t = "array" THEN [i \in 1..Len(v.kids) |-> IndexNames[i]] ELSE v.keys

\* The position of key in keys, or 0.
IndexOf(keys, key) ==
    IF \E i \in 1..Len(keys) : keys[i] = key
    THEN CHOOSE i \in 1..Len(keys) : keys[i] = key
    ELSE 0

\* v[key]: a property read.  A string has its characters, every other
\* primitive has no property of the names the model uses.
Get(v, key) ==
    CASE v.t \in {"object", "array"} ->
            LET i == IndexOf(ObjectKeys(v), key)
            IN  IF i = 0 THEN Undef ELSE v.kids[i]
      [] v.t = "string" ->
            LET i == IndexOf([j \in 1..Len(v.s) |-> IndexNames[j]], key)
            IN  IF i = 0 THEN Undef ELSE Str(<<v.s[i]>>)
      [] OTHER -> Undef

\* v[key] = w: a property write.  On an object or array it replaces or adds
\* the property; on a primitive it does nothing (non-strict code).
Put(v, key, w) ==
    IF v.t \in {"object", "array"}
    THEN LET i == IndexOf(ObjectKeys(v), key)
         IN  IF i = 0
             THEN [v EXCEPT !.keys = Append(ObjectKeys(v), key), !.kids = Append(@, w), !.t = "object"]
             ELSE [v EXCEPT !.kids[i] = w]
    ELSE v

\* v.length: the number of elements or characters; -1 stands for undefined.
LengthOf(v) ==
    CASE v.t = "array" -> Len(v.kids)
      [] v.t = "string" -> Len(v.s)
      [] OTHER -> -1

\* a === b for two values, where two objects are never the same object
\* unless the caller knows they are (see the "same" field of the results).
StrictEq(a, b) == a.t \notin {"array", "object"} /\ a = b

---------------------------------------------------------------------------
(***************************************************************************)
(* Schema nodes.  A schema node is again a record of one shape:            *)
(*   k     : "lit" (a scalar or null literal), "map" (an object literal),  *)
(*           "arr" (an array literal), "fn" (a plain function),            *)
(*           "val" (a validator made by shapeOf.Validator)                 *)
(*   lit   : the literal value                                             *)
(*   keys, kids : the fields of an object literal, the elements of an      *)
(*           array literal, or the sub-validator properties of a validator *)
(*   fn    : the name of the plain function                                *)
(*   pub   : the properties copied onto the validator function itself      *)
(*   bound : the properties object the validator function is bound to      *)
(*           (the `this` of _validatorArgHandler)                          *)
(*   skeys, svals : the _subValidators of the bound properties             *)
(***************************************************************************)
\* _generateValidatorCallSignature(validatorName, argsList, callback)
_generateValidatorCallSignature(name, argsList, callback) ==
    [name |-> name, args |-> argsList, _callback |-> callback]

NoOptions ==
    [parent |-> "", aliases |-> <<>>, optional |-> FALSE, requiredArgsCount |-> 0,
     _callChain |-> <<>>]

NoProps ==
    [_name |-> "", _optional |-> FALSE, _requiredArgsCount |-> 0, _callback |-> "",
     _callChain |-> <<>>, _options |-> NoOptions, _aliases |-> <<>>]

Sch(k, lit, keys, kids, fn) ==
    [k |-> k, lit |-> lit, keys |-> keys, kids |-> kids, fn |-> fn,
     pub |-> NoProps, bound |-> NoProps, skeys |-> <<>>, svals |-> <<>>]

Lit(v) == Sch("lit", v, <<>>, <<>>, "")

Map(keys, kids) == Sch("map", Undef, keys, kids, "")

ArrLit(kids) == Sch("arr", Undef, <<>>, kids, "")

Fn(name) == Sch("fn", Undef, <<>>, <<>>, name)

ValidatorObject(pub, bound, keys, kids, skeys, svals) ==
    [k |-> "val", lit |-> Undef, keys |-> keys, kids |-> kids, fn |-> "",
     pub |-> pub, bound |-> bound, skeys |-> skeys, svals |-> svals]

\* shapeOf.isValidator(obj)
isValidator(schema) == schema.k = "val"

\* Function.length of the validator callbacks (a rest parameter counts 0).
CallbackLength(callback) ==
    CASE callback \in {"_shapeOf_number_range"} -> 3
      [] callback \in {"_shapeOf_greaterThanOrEqualTo", "_shapeOf_lessThanOrEqualTo"} -> 2
      [] callback \in {"_shapeOf_length", "_shapeOf_string_pattern", "_shapeOf_arrayOf",
                       "_shapeOf_objectOf", "_shapeOf_oneOf", "_shapeOf_oneOfType",
                       "_shapeOf_eachOf"} -> 0
      [] OTHER -> 1

Max(a, b) == IF a >= b THEN a ELSE b

Min(a, b) == IF a <= b THEN a ELSE b

\* _makeValidatorProperties(name, callback, options): requiredArgsCount 0
\* in the options stands for an absent (or zero, which is falsy) count.
_makeValidatorProperties(name, callback, options) ==
    LET thisCall == _generateValidatorCallSignature(name, <<>>, callback)
    IN  [_name |-> name,
         _callChain |-> Append(options._callChain, thisCall),
         _options |-> options,
         _optional |-> options.optional,
         _requiredArgsCount |->
            IF options.requiredArgsCount # 0 THEN options.requiredArgsCount
            ELSE Max(0, CallbackLength(callback) - 1),
         _callback |-> callback,
         _aliases |-> options.aliases]

\* The last segment of a dotted validator name (name.split('.') and the last
\* element), for the names the registry holds.
LastSegment(name) ==
    CASE name \in {"shapeOf.number.range", "shapeOf.optional.number.range",
                   "shapeOf.integer.range", "shapeOf.optional.integer.range"} -> "range"
      [] name \in {"shapeOf.number.min", "shapeOf.optional.number.min"} -> "min"
      [] name \in {"shapeOf.number.max", "shapeOf.optional.number.max"} -> "max"
      [] name \in {"shapeOf.string.size", "shapeOf.optional.string.size",
                   "shapeOf.array.size", "shapeOf.optional.array.size",
                   "shapeOf.arrayOf.size", "shapeOf.optional.arrayOf.size"} -> "size"
      [] name \in {"shapeOf.string.ofSize", "shapeOf.array.ofSize",
                   "shapeOf.arrayOf.ofSize"} -> "ofSize"
      [] name \in {"shapeOf.string.pattern", "shapeOf.optional.string.pattern"} -> "pattern"
      [] name = "shapeOf.string.matching" -> "matching"
      [] OTHER -> name

\* seq with the value of key replaced, or key appended
PutKey(keys, key) == IF IndexOf(keys, key) = 0 THEN Append(keys, key) ELSE keys

PutVal(keys, vals, key, v) ==
    IF IndexOf(keys, key) = 0 THEN Append(vals, v) ELSE [vals EXCEPT ![IndexOf(keys, key)] = v]

\* One name of _attachSubValidator's names.forEach: the clone of child that
\* becomes parent[childName] and parent._subValidators[childName].
AttachOne(parent, child, name) ==
    LET childName == LastSegment(name)
        subValidatorOptions ==
            [child.pub EXCEPT
                !._optional = IF parent.pub._optional THEN TRUE ELSE @,
                !._callChain = parent.pub._callChain \o child.pub._callChain]
        subValidator ==
            ValidatorObject(subValidatorOptions, subValidatorOptions,
                            child.keys, child.kids, child.skeys, child.svals)
    IN  [parent EXCEPT
            !.kids = PutVal(parent.keys, @, childName, subValidator),
            !.keys = PutKey(@, childName),
            !.svals = PutVal(parent.skeys, @, childName, subValidator),
            !.skeys = PutKey(@, childName)]

RECURSIVE AttachNames(_, _, _, _)
AttachNames(parent, child, names, i) ==
    IF i > Len(names) THEN parent
    ELSE AttachNames(AttachOne(parent, child, names[i]), child, names, i + 1)

\* _attachSubValidator(parent, child), for a parent object: the parent as
\* it is afterwards.
_attachSubValidator(parent, child) ==
    AttachNames(parent, child, <<child.pub._name>> \o child.pub._aliases, 1)

\* The sub-validator _validatorArgHandler re-attaches under one key: it is
\* bound to fresh properties made from the sub-validator's name, callback
\* and options with the new call chain, and the properties copied onto it
\* are those of the bindings (newSubValidator[subKey] = bindings[subKey]).
ArgHandlerReattach(bindings, subValidator) ==
    LET subValidatorProps ==
            _makeValidatorProperties(
                subValidator.pub._name, subValidator.pub._callback,
                [subValidator.pub._options EXCEPT !._callChain = bindings._callChain])
    IN  ValidatorObject(bindings, subValidatorProps, <<>>, <<>>, <<>>, <<>>)

\* The guard of _validatorArgHandler: it throws instead of returning.
ArgHandlerThrows(validator, args) == Len(args) < validator.bound._requiredArgsCount

\* _validatorArgHandler.call(validator's bound properties, ...args): the
\* validator returned.
_validatorArgHandler(validator, args) ==
    LET this == validator.bound
        n == Len(this._callChain)
        thisCall == _generateValidatorCallSignature(
                        this._callChain[n].name, args, this._callChain[n]._callback)
        bindings == [this EXCEPT !._callChain = Append(SubSeq(this._callChain, 1, n - 1), thisCall)]
    IN  ValidatorObject(bindings, bindings,
            validator.skeys,
            [i \in 1..Len(validator.skeys) |-> ArgHandlerReattach(bindings, validator.svals[i])],
            validator.skeys, validator.svals)

\* validator[key]: a sub-validator read as a property
Sub(validator, key) == validator.kids[IndexOf(validator.keys, key)]

---------------------------------------------------------------------------
(***************************************************************************)
(* The registry shapeOf.Validator._validators, built from _coreValidators. *)
(* The model keeps the core validators the claims use; optName and         *)
(* optParent are the names the generating loop derives for the optional    *)
(* twin (names[0] + '.optional.' + the rest).                              *)
(***************************************************************************)
CoreEntry(name, optName, callback, parent, optParent, aliases, requiredArgsCount) ==
    [name |-> name, optName |-> optName, callback |-> callback, parent |-> parent,
     optParent |-> optParent, aliases |-> aliases, requiredArgsCount |-> requiredArgsCount]

_coreValidators ==
    << CoreEntry("shapeOf.number", "shapeOf.optional.number", "_shapeOf_number", "", "", <<>>, 0),
       CoreEntry("shapeOf.number.range", "shapeOf.optional.number.range", "_shapeOf_number_range",
                 "shapeOf.number", "shapeOf.optional.number", <<>>, 2),
       CoreEntry("shapeOf.number.min", "shapeOf.optional.number.min", "_shapeOf_greaterThanOrEqualTo",
                 "shapeOf.number", "shapeOf.optional.number", <<>>, 1),
       CoreEntry("shapeOf.number.max", "shapeOf.optional.number.max", "_shapeOf_lessThanOrEqualTo",
                 "shapeOf.number", "shapeOf.optional.number", <<>>, 1),
       CoreEntry("shapeOf.integer", "shapeOf.optional.integer", "_shapeOf_integer", "", "", <<>>, 0),
       CoreEntry("shapeOf.integer.range", "shapeOf.optional.integer.range", "_shapeOf_number_range",
                 "shapeOf.integer", "shapeOf.optional.integer", <<>>, 2),
       CoreEntry("shapeOf.string", "shapeOf.optional.string", "_shapeOf_string", "", "", <<>>, 0),
       CoreEntry("shapeOf.string.size", "shapeOf.optional.string.size", "_shapeOf_length",
                 "shapeOf.string", "shapeOf.optional.string", <<"shapeOf.string.ofSize">>, 1),
       CoreEntry("shapeOf.string.pattern", "shapeOf.optional.string.pattern",
                 "_shapeOf_string_pattern",
                 "shapeOf.string", "shapeOf.optional.string", <<"shapeOf.string.matching">>, 1),
       CoreEntry("shapeOf.array", "shapeOf.optional.array", "_shapeOf_array", "", "", <<>>, 0),
       CoreEntry("shapeOf.array.size", "shapeOf.optional.array.size", "_shapeOf_length",
                 "shapeOf.array", "shapeOf.optional.array", <<"shapeOf.array.ofSize">>, 1),
       CoreEntry("shapeOf.bool", "shapeOf.optional.bool", "_shapeOf_bool", "", "", <<"shapeOf.boolean">>, 0),
       CoreEntry("shapeOf.object", "shapeOf.optional.object", "_shapeOf_object", "", "", <<>>, 0),
       CoreEntry("shapeOf.null", "shapeOf.optional.null", "_shapeOf_null", "", "", <<>>, 0),
       CoreEntry("shapeOf.primitive", "shapeOf.optional.primitive", "_shapeOf_primitive", "", "", <<>>, 0),
       CoreEntry("shapeOf.arrayOf", "shapeOf.optional.arrayOf", "_shapeOf_arrayOf", "", "", <<>>, 0),
       CoreEntry("shapeOf.arrayOf.size", "shapeOf.optional.arrayOf.size", "_shapeOf_length",
                 "shapeOf.arrayOf", "shapeOf.optional.arrayOf", <<"shapeOf.arrayOf.ofSize">>, 1),
       CoreEntry("shapeOf.objectOf", "shapeOf.optional.objectOf", "_shapeOf_objectOf", "", "", <<>>, 0),
       CoreEntry("shapeOf.oneOf", "shapeOf.optional.oneOf", "_shapeOf_oneOf", "", "", <<>>, 1),
       CoreEntry("shapeOf.oneOfType", "shapeOf.optional.oneOfType", "_shapeOf_oneOfType", "", "", <<>>, 1),
       CoreEntry("shapeOf.eachOf", "shapeOf.optional.eachOf", "_shapeOf_eachOf", "", "", <<"shapeOf.each">>, 1) >>

\* The registry is a function from the registered names to the validators.
EmptyRegistry == [name \in {} |-> Sch("", Undef, <<>>, <<>>, "")]

\* validators[name] = validator
Register(validators, name, validator) ==
    (name :> validator) @@ validators

RECURSIVE RegisterAll(_, _, _, _)
RegisterAll(validators, names, validator, i) ==
    IF i > Len(names) THEN validators
    ELSE RegisterAll(Register(validators, names[i], validator), names, validator, i + 1)

\* shapeOf.Validator(name, callback, options): the registry afterwards.  The
\* parent is one object under all the names it is registered by, so
\* attaching a child changes the entry of each of those names.
Validator(validators, name, callback, options) ==
    LET validatorOptions == _makeValidatorProperties(name, callback, options)
        validator == ValidatorObject(validatorOptions, validatorOptions, <<>>, <<>>, <<>>, <<>>)
        attached ==
            IF options.parent = "" THEN validators
            ELSE LET parent == validators[options.parent]
                     after == _attachSubValidator(parent, validator)
                 IN  [n \in DOMAIN validators |->
                        IF validators[n] = parent THEN after ELSE validators[n]] @@ EmptyRegistry
    IN  Register(RegisterAll(attached, validatorOptions._aliases, validator, 1), name, validator)

\* One round of _coreValidators.forEach: the core validator, then its
\* optional twin (same callback and options, optional: true, the parent's
\* optional name).
GenerateOne(validators, entry) ==
    LET options == [NoOptions EXCEPT !.parent = entry.parent, !.aliases = entry.aliases,
                                     !.requiredArgsCount = entry.requiredArgsCount]
        optOptions == [options EXCEPT !.optional = TRUE, !.parent = entry.optParent]
    IN  Validator(Validator(validators, entry.name, entry.callback, options),
                  entry.optName, entry.callback, optOptions)

RECURSIVE GenerateFrom(_, _)
GenerateFrom(validators, i) ==
    IF i > Len(_coreValidators) THEN validators
    ELSE LET generated == GenerateOne(validators, _coreValidators[i])
         IN  IF _coreValidators[i].name \in DOMAIN generated
             THEN GenerateFrom(generated, i + 1)
             ELSE generated

\* shapeOf.Validator._validators once the library is loaded
_validators == GenerateFrom(EmptyRegistry, 1)

---------------------------------------------------------------------------
(***************************************************************************)
(* The evaluation engine.  Every operator takes and returns the state the  *)
(* evaluation threads through its calls:                                   *)
(*   ev     : the callbacks invoked so far, with their arguments           *)
(*   log    : the log array of the terminal call (the one log that can be  *)
(*            written: only options made from the terminal call's options  *)
(*            carry returnsResults)                                        *)
(*   chain  : shapeOf._shouldBeOptionsChain, one frame per options object  *)
(*   last   : shapeOf._lastShouldBeOptions                                 *)
(*   nid    : the number of options objects made so far (their identity)   *)
(*   thrown : "none", or the value thrown; a thrown value ends every       *)
(*            enclosing call, there is no catch in the library             *)
(*   lastIndex : the lastIndex of the RegExp object the schema holds (the  *)
(*            schemas of the model hold one RegExp object at most)         *)
(*   path, field, muts : history only.  path is the position in the input  *)
(*            of the value under evaluation, field tells that the value    *)
(*            is a field or element its caller will store back, muts       *)
(*            lists the values validators returned that differ from what   *)
(*            they received.                                               *)
(*   links  : history only, the link callbacks _executeValidator invoked:  *)
(*            the depth of the evaluation, the link's position, callback   *)
(*            and bound arguments, the value passed last and the return.   *)
(*   pops   : history only, for each pop of the chain the options popped   *)
(*            and the options left on top of the chain (0: none).          *)
(* A result is [rtn, obj, same, m]: the value returned, the content of the *)
(* received value afterwards, whether rtn is that same object, the state.  *)
(***************************************************************************)
NoFrame == [id |-> 0, returnsResults |-> FALSE]

NewMachine ==
    [ev |-> <<>>, log |-> <<>>, chain |-> <<>>, last |-> NoFrame, nid |-> 0,
     thrown |-> "none", lastIndex |-> 0, path |-> <<>>, field |-> FALSE, muts |-> <<>>,
     links |-> <<>>, pops |-> <<>>]

\* The error payloads of the model, by name: "undefined" is no payload,
\* "false" a payload that is falsy, "err1" an error object.
ErrorObjs == {"undefined", "false", "err1"}

\* if (errorObj)
TruthyError(errorObj) == errorObj \notin {"undefined", "false"}

\* The options a terminal call works with; the callbacks are the content
\* of the callback arrays at the time of the call.
NoCallOptions ==
    [exact |-> FALSE, returnsObject |-> FALSE, returnsResults |-> FALSE,
     throwsOnInvalid |-> FALSE, errorObj |-> "undefined", onValid |-> <<>>, onInvalid |-> <<>>,
     onComplete |-> <<>>]

Res(rtn, obj, same, m) == [rtn |-> rtn, obj |-> obj, same |-> same, m |-> m]

Throw(obj, m, what) == Res(Undef, obj, TRUE, [m EXCEPT !.thrown = what])

Thrown(m) == m.thrown # "none"

At(m, path, field) == [m EXCEPT !.path = path, !.field = field]

\* obj !== rtn, for the value a call received and the result it gave
Differs(received, r) ==
    IF r.rtn.t \in {"array", "object"} THEN ~r.same ELSE r.rtn # received

\* _validationLog(shouldBeOptions, message, ...obj) for options whose
\* returnsResults is given; at is the key, index or name in the message.
_validationLog(returnsResults, m, message, at, objs) ==
    IF ~returnsResults THEN m
    ELSE [m EXCEPT !.log = Append(@, [message |-> message, at |-> at, obj |-> objs])]

\* callbacks.forEach(callback => callback(obj, schema))
RECURSIVE Fire(_, _, _, _, _, _)
Fire(kind, callbacks, i, obj, schema, m) ==
    IF i > Len(callbacks) THEN m
    ELSE Fire(kind, callbacks, i + 1, obj, schema,
              [m EXCEPT !.ev = Append(@, [kind |-> kind, callback |-> callbacks[i],
                                          obj |-> obj, schema |-> schema])])

\* What the history keeps of a validator's return.
NoteReturn(received, r, path, field) ==
    IF IsDef(r.rtn) /\ r.rtn # received /\ ~Thrown(r.m)
    THEN [r EXCEPT !.m.muts = Append(@, [path |-> path, val |-> r.rtn, field |-> field])]
    ELSE r

\* String.prototype.toUpperCase over the letters the model's strings use.
toUpperCase(cs) ==
    [i \in 1..Len(cs) |->
        CASE cs[i] = "x" -> "X"
          [] cs[i] = "a" -> "A"
          [] cs[i] = "b" -> "B"
          [] cs[i] = "r" -> "R"
          [] OTHER -> cs[i]]

\* The plain functions of src/test.js used as schemas.
\*   doubleMutator: doubles obj.foo in place (and reads obj.foo of null)
\*   addOneMutator: returns obj + 1 for a number
\*   fooValidator : accepts the string 'bar' only
\*   uppercaseMutator: returns obj.toUpperCase() for a string
CallFunction(fn, obj, m) ==
    CASE fn = "doubleMutator" ->
            IF obj.t = "null" THEN Throw(obj, m, "TypeError")
            ELSE IF TypeofObject(obj) /\ Get(obj, "foo").t = "number"
            THEN LET o == Put(obj, "foo", Num(Twice(Get(obj, "foo")))) IN Res(o, o, TRUE, m)
            ELSE Res(Undef, obj, TRUE, m)
      [] fn = "addOneMutator" ->
            IF obj.t = "number" THEN Res([obj EXCEPT !.n = @ + 1], obj, FALSE, m)
            ELSE Res(Undef, obj, TRUE, m)
      [] fn = "fooValidator" ->
            IF obj = Str(<<"b", "a", "r">>) THEN Res(obj, obj, TRUE, m)
            ELSE Res(Undef, obj, TRUE, m)
      [] fn = "uppercaseMutator" ->
            IF obj.t = "string" THEN Res(Str(toUpperCase(obj.s)), obj, FALSE, m)
            ELSE Res(Undef, obj, TRUE, m)
      [] OTHER -> Res(Undef, obj, TRUE, m)

\* An argument of a validator call read as a value: a literal is its
\* value, any other schema node is a function or an object of its own.
AsValue(schema) ==
    CASE schema.k = "lit" -> schema.lit
      [] schema.k \in {"fn", "val"} -> Val("function", 0, <<>>, <<>>, <<>>)
      [] schema.k = "arr" -> Arr(<<>>)
      [] OTHER -> Obj(<<>>, <<>>)

\* The i-th actual parameter of callback(...link.args, obj)
Actual(args, obj, i) ==
    IF i <= Len(args) THEN AsValue(args[i])
    ELSE IF i = Len(args) + 1 THEN obj ELSE Undef

\* _flattenArgs(argsList)
RECURSIVE _flattenArgs(_)
_flattenArgs(argsList) ==
    IF argsList = <<>> THEN <<>>
    ELSE (IF Head(argsList).k = "arr" THEN Head(argsList).kids ELSE <<Head(argsList)>>)
         \o _flattenArgs(Tail(argsList))

\* shapeOf(x).returnsObject.shouldBe(type) and shapeOf(x).shouldBeExactly(type)
\* start from the options of a new builder.
ReturnsObjectOptions == [NoCallOptions EXCEPT !.returnsObject = TRUE]

ExactlyOptions == [NoCallOptions EXCEPT !.exact = TRUE]

RECURSIVE _shouldBe(_, _, _, _)
RECURSIVE Evaluate(_, _, _, _)
RECURSIVE ArrayLiteralLoop(_, _, _, _, _, _)
RECURSIVE _object(_, _, _, _)
RECURSIVE ObjectFieldsLoop(_, _, _, _, _, _)
RECURSIVE _executeValidator(_, _, _)
RECURSIVE ExecuteLoop(_, _, _, _, _)
RECURSIVE ExecuteNext(_, _, _, _, _, _)
RECURSIVE ApplyCallback(_, _, _, _)
RECURSIVE _shapeOf_arrayOf(_, _, _)
RECURSIVE _shapeOf_objectOf(_, _, _)
RECURSIVE OfElementsLoop(_, _, _, _, _, _)
RECURSIVE OfElementsNext(_, _, _, _, _, _)
RECURSIVE OfTypesLoop(_, _, _, _, _)
RECURSIVE _shapeOf_oneOfType(_, _, _)
RECURSIVE OneOfTypeLoop(_, _, _, _, _)
RECURSIVE _shapeOf_eachOf(_, _, _)
RECURSIVE EachOfLoop(_, _, _, _, _)

\* The options object of a call joins shapeOf._shouldBeOptionsChain and
\* becomes shapeOf._lastShouldBeOptions.
Enter(options, m) ==
    [m EXCEPT !.nid = @ + 1,
              !.last = [id |-> m.nid + 1, returnsResults |-> options.returnsResults],
              !.chain = Append(@, [id |-> m.nid + 1, returnsResults |-> options.returnsResults])]

\* shapeOf._lastShouldBeOptions = shapeOf._shouldBeOptionsChain.pop()
Leave(m) ==
    [m EXCEPT !.last = m.chain[Len(m.chain)], !.chain = SubSeq(@, 1, Len(@) - 1),
              !.pops = Append(@, [last |-> m.chain[Len(m.chain)].id,
                                  top |-> IF Len(m.chain) > 1 THEN m.chain[Len(m.chain) - 1].id
                                          ELSE 0])]

\* The onInvalid callbacks of a call that did not match, the onValid
\* callbacks of one that did.
FireOutcome(options, schema, e) ==
    IF IsDef(e.rtn) THEN Fire("onValid", options.onValid, 1, e.obj, schema, e.m)
    ELSE Fire("onInvalid", options.onInvalid, 1, e.obj, schema, e.m)

\* The throw of throwsOnInvalid, or else the onComplete callbacks and the
\* return; m is the state after the callbacks of the outcome.
Finish(options, schema, e, m) ==
    IF options.throwsOnInvalid /\ ~IsDef(e.rtn)
    THEN Throw(e.obj, m, IF TruthyError(options.errorObj) THEN options.errorObj
                         ELSE "Invalid shape detected")
    ELSE Res(e.rtn, e.obj, e.same,
             Leave(Fire("onComplete", options.onComplete, 1, e.obj, schema, m)))

\* _shouldBe after "Evaluate object": e is what the evaluation gave.
Conclude(options, schema, e) ==
    IF Thrown(e.m) THEN e ELSE Finish(options, schema, e, FireOutcome(options, schema, e))

\* _shouldBe(options, schema) with options.obj = obj
_shouldBe(options, obj, schema, m) ==
    Conclude(options, schema, Evaluate(options, obj, schema, Enter(options, m)))

\* What _shouldBe logs of the return r of a validator or function that
\* received the given value.
Logged(rr, received, r, failed, mutation, name) ==
    IF Thrown(r.m) THEN r
    ELSE IF ~IsDef(r.rtn) THEN [r EXCEPT !.m = _validationLog(rr, @, failed, name, <<r.obj>>)]
    ELSE IF Differs(received, r)
    THEN [r EXCEPT !.m = _validationLog(rr, @, mutation, name, <<r.obj, r.rtn>>)]
    ELSE r

\* The end of the array branch: l is what its loop gave.
ArrayResult(rr, l) ==
    IF Thrown(l.m) THEN Res(Undef, l.obj, TRUE, l.m)
    ELSE IF l.ok THEN Res(l.obj, l.obj, TRUE, l.m)
    ELSE Res(Undef, l.obj, TRUE, _validationLog(rr, l.m, "Failed: Array", "", <<l.obj>>))

\* The end of the object branch: r is what _object gave.
ObjectResult(rr, r) ==
    IF Thrown(r.m) \/ IsDef(r.rtn) THEN r
    ELSE [r EXCEPT !.m = _validationLog(rr, @, "Failed: Object", "", <<r.obj>>)]

\* The "Evaluate object" part of _shouldBe: one branch per kind of schema.
Evaluate(options, obj, schema, m) ==
    CASE isValidator(schema) ->
            Logged(options.returnsResults, obj,
                   NoteReturn(obj, _executeValidator(schema, obj, m), m.path, m.field),
                   "Failed: Validator", "Mutation: Validator", schema.pub._name)
      [] schema.k = "fn" ->
            Logged(options.returnsResults, obj,
                   NoteReturn(obj, CallFunction(schema.fn, obj, m), m.path, m.field),
                   "Failed: Validation using functional validator",
                   "Mutation: Functional validator", schema.fn)
      [] schema.k = "arr" ->
            IF obj.t \in {"null", "undefined"} THEN Throw(obj, m, "TypeError")
            ELSE ArrayResult(options.returnsResults,
                             IF Len(schema.kids) = LengthOf(obj)
                             THEN ArrayLiteralLoop(options, obj, schema, 1, m, m.path)
                             ELSE [ok |-> FALSE, obj |-> obj, m |-> m])
      [] schema.k = "map" \/ (schema.k = "lit" /\ schema.lit.t = "null") ->
            ObjectResult(options.returnsResults, _object(obj, schema, options, m))
      [] OTHER ->
            IF StrictEq(schema.lit, obj) THEN Res(obj, obj, TRUE, m)
            ELSE Res(Undef, obj, TRUE,
                     _validationLog(options.returnsResults, m, "Failed: Strict equality", "",
                                    <<obj, Undef>>))

\* The loop of the array-literal branch, from index i - 1 on.
ArrayLiteralLoop(options, obj, schema, i, m, path) ==
    IF i > LengthOf(obj) THEN [ok |-> TRUE, obj |-> obj, m |-> m]
    ELSE LET idx == IndexNames[i]
             elem == Get(obj, idx)
             r == _shouldBe([options EXCEPT !.returnsObject = TRUE], elem, schema.kids[i],
                            At(m, Append(path, idx), TRUE))
             held == Put(obj, idx, r.obj)
         IN  IF Thrown(r.m) THEN [ok |-> FALSE, obj |-> held, m |-> r.m]
             ELSE IF ~IsDef(r.rtn)
             THEN [ok |-> FALSE, obj |-> held,
                   m |-> _validationLog(options.returnsResults, r.m,
                                        "Failed: Array element at index", idx, <<r.obj>>)]
             ELSE ArrayLiteralLoop(options, Put(held, idx, r.rtn), schema, i + 1,
                    IF Differs(elem, r)
                    THEN _validationLog(options.returnsResults, r.m,
                                        "Mutation: Array element at index", idx, <<r.obj, r.rtn>>)
                    ELSE r.m, path)

\* An exactness check that finds no key to object to.
ExtraneousKeyNone(obj, schemaKeys) == ""

\* The first key of obj, from the last one down, that the schema does not
\* declare; "" if there is none.
ExtraneousKey(obj, schemaKeys) ==
    LET objKeys == ObjectKeys(obj)
        extra == {i \in 1..Len(objKeys) : IndexOf(schemaKeys, objKeys[i]) = 0}
    IN  IF extra = {} THEN ""
        ELSE objKeys[CHOOSE i \in extra : \A j \in extra : j <= i]

\* The end of _object: the exact check and the return; l is what the loop
\* over the schema's keys gave.
ExactCheck(schema, options, l) ==
    IF Thrown(l.m) \/ ~l.ok THEN Res(Undef, l.obj, TRUE, l.m)
    ELSE IF options.exact /\ ExtraneousKey(l.obj, schema.keys) # ""
    THEN Res(Undef, l.obj, TRUE,
             _validationLog(options.returnsResults, l.m, "Failed: Object with extraneous key",
                            ExtraneousKey(l.obj, schema.keys), <<>>))
    ELSE IF ~options.returnsObject THEN Res(Bool(TRUE), l.obj, FALSE, l.m)
    ELSE Res(l.obj, l.obj, TRUE, l.m)

\* _object(obj, schema, options)
_object(obj, schema, options, m) ==
    IF ~TypeofObject(obj) \/ obj.t = "null" THEN Res(Undef, obj, TRUE, m)
    ELSE IF schema.k = "lit" THEN Throw(obj, m, "TypeError")
    ELSE ExactCheck(schema, options,
                    ObjectFieldsLoop(obj, schema, options, Len(schema.keys), m, m.path))

\* A reading of _optional that takes no validator for optional.
IsOptionalNever(expected) == FALSE

\* expected._optional for a schema node that is not null
IsOptional(expected) == isValidator(expected) /\ expected.pub._optional

\* The loop of _object over the schema's keys, from key i down.
ObjectFieldsLoop(obj, schema, options, i, m, path) ==
    IF i = 0 THEN [ok |-> TRUE, obj |-> obj, m |-> m]
    ELSE LET schemaKey == schema.keys[i]
             expected == schema.kids[i]
             valInQuestion == Get(obj, schemaKey)
             rr == options.returnsResults
             r == _shouldBe([options EXCEPT !.returnsObject = TRUE], valInQuestion, expected,
                            At(m, Append(path, schemaKey), TRUE))
             held == Put(obj, schemaKey, r.obj)
         IN  IF ~IsDef(valInQuestion)
             THEN IF expected.k = "lit" /\ expected.lit.t = "null"
                  THEN [ok |-> FALSE, obj |-> obj, m |-> [m EXCEPT !.thrown = "TypeError"]]
                  ELSE IF ~IsOptional(expected)
                  THEN [ok |-> FALSE, obj |-> obj,
                        m |-> _validationLog(rr, m, "Failed: Object with missing key",
                                             schemaKey, <<>>)]
                  ELSE ObjectFieldsLoop(obj, schema, options, i - 1, m, path)
             ELSE IF Thrown(r.m) THEN [ok |-> FALSE, obj |-> held, m |-> r.m]
             ELSE IF ~IsDef(r.rtn)
             THEN [ok |-> FALSE, obj |-> held,
                   m |-> _validationLog(rr, r.m, "Failed: Object at key", schemaKey, <<r.obj>>)]
             ELSE ObjectFieldsLoop(Put(held, schemaKey, r.rtn), schema, options, i - 1,
                    IF Differs(valInQuestion, r)
                    THEN _validationLog(rr, r.m, "Mutation: Object field", schemaKey,
                                        <<r.obj, r.rtn>>)
                    ELSE r.m, path)

\* _executeValidator(validator, obj)
_executeValidator(validator, obj, m) ==
    ExecuteLoop(validator.pub._callChain, 1, Res(obj, obj, TRUE, m), obj, m.path)

\* The loop of _executeValidator from link i on; sofar.rtn is the value the
\* links passed on, sofar.obj the content of the value first received.
\* No link carries a _requiredArgsCount, so the loop's argument check
\* (args.length < undefined) never throws.
ExecuteLoop(callChain, i, sofar, received, path) ==
    IF i > Len(callChain) THEN sofar
    ELSE ExecuteNext(callChain, i, sofar, received, path,
                     ApplyCallback(callChain[i]._callback, callChain[i].args, sofar.rtn,
                                   At(sofar.m, path, sofar.m.field)))

\* What the history keeps of obj = link._callback(...args).
NoteLink(callChain, i, sofar, r) ==
    [r.m EXCEPT !.links = Append(@, [depth |-> Len(sofar.m.chain), i |-> i,
                                     callback |-> callChain[i]._callback,
                                     args |-> callChain[i].args,
                                     obj |-> sofar.rtn,
                                     rtn |-> IF Thrown(r.m) THEN Undef ELSE r.rtn])]

\* The loop without its break: the next link is called whatever link i
\* returned.
ExecuteNextThrough(callChain, i, sofar, received, path, r) ==
    IF Thrown(r.m)
    THEN Res(Undef, IF sofar.same THEN r.obj ELSE sofar.obj, TRUE,
             NoteLink(callChain, i, sofar, r))
    ELSE ExecuteLoop(callChain, i + 1,
                     Res(r.rtn,
                         IF sofar.same /\ r.same THEN r.rtn
                         ELSE IF sofar.same THEN r.obj ELSE sofar.obj,
                         sofar.same /\ r.same, NoteLink(callChain, i, sofar, r)),
                     received, path)

\* The rest of the loop after link i returned r.
ExecuteNext(callChain, i, sofar, received, path, r) ==
    IF Thrown(r.m) \/ ~IsDef(r.rtn)
    THEN Res(Undef, IF sofar.same THEN r.obj ELSE sofar.obj, TRUE,
             NoteLink(callChain, i, sofar, r))
    ELSE ExecuteLoop(callChain, i + 1,
                     Res(r.rtn,
                         IF sofar.same /\ r.same THEN r.rtn
                         ELSE IF sofar.same THEN r.obj ELSE sofar.obj,
                         sofar.same /\ r.same, NoteLink(callChain, i, sofar, r)),
                     received, path)

\* _shapeOf_length(...args) with the value last
_shapeOf_length(args, obj, m) ==
    LET n == Len(args) + 1
        a1 == Actual(args, obj, 1)
        a2 == Actual(args, obj, 2)
    IN  IF n < 2 \/ n > 3
        THEN Throw(obj, m, "Length validator requires between one and two arguments")
        ELSE IF obj.t \in {"null", "undefined"} THEN Throw(obj, m, "TypeError")
        ELSE IF n = 2
        THEN IF a1.t = "number" /\ 2 * LengthOf(obj) = Twice(a1) THEN Res(obj, obj, TRUE, m)
             ELSE Res(Undef, obj, TRUE, m)
        ELSE IF a1.t = "number" /\ a2.t = "number" /\ LengthOf(obj) >= 0
                /\ 2 * LengthOf(obj) >= Min(Twice(a1), Twice(a2))
                /\ 2 * LengthOf(obj) <= Max(Twice(a1), Twice(a2))
             THEN Res(obj, obj, TRUE, m)
             ELSE Res(Undef, obj, TRUE, m)

\* The index, from 0, of the first occurrence of source in cs at or after
\* from; -1 if there is none.
IndexOfMatch(cs, source, from) ==
    LET at == {k \in from..(Len(cs) - Len(source)) : SubSeq(cs, k + 1, k + Len(source)) = source}
    IN  IF at = {} THEN -1 ELSE CHOOSE k \in at : \A j \in at : k <= j

\* pattern.test(str) for a RegExp of literal characters whose lastIndex is
\* given: whether it matched, and its lastIndex afterwards.  A RegExp with
\* the global flag searches from its lastIndex and keeps the end of the
\* match there (0 after a failed search); one without it searches from 0
\* and leaves lastIndex alone.
RegExpTest(pattern, cs, lastIndex) ==
    LET global == \E i \in 1..Len(pattern.keys) : pattern.keys[i] = "g"
        k == IndexOfMatch(cs, pattern.s, IF global THEN lastIndex ELSE 0)
    IN  [found |-> k >= 0,
         lastIndex |-> IF ~global THEN lastIndex
                       ELSE IF k >= 0 THEN k + Len(pattern.s) ELSE 0]

\* if (pattern.test(obj)) return obj, for a RegExp made by the call (fresh)
\* or the RegExp object the schema holds.  The chains of the registry let
\* only a string through to the pattern link.
PatternResult(pattern, fresh, obj, m) ==
    LET t == RegExpTest(pattern, obj.s, IF fresh THEN 0 ELSE m.lastIndex)
        after == IF fresh THEN m ELSE [m EXCEPT !.lastIndex = t.lastIndex]
    IN  IF obj.t = "string" /\ t.found THEN Res(obj, obj, TRUE, after)
        ELSE Res(Undef, obj, TRUE, after)

\* _shapeOf_string_pattern(...args) with the value last; the flags of the
\* model are strings of valid flags.
_shapeOf_string_pattern(args, obj, m) ==
    LET n == Len(args) + 1
        pattern == Actual(args, obj, 1)
        flags == IF n = 3 THEN Actual(args, obj, 2).s ELSE <<>>
    IN  IF n < 2 \/ n > 3
        THEN Throw(obj, m, "String pattern validator requires between one and two arguments")
        ELSE IF pattern.t = "string"
        THEN PatternResult(RegExpOf(pattern.s, flags), TRUE, obj, m)
        ELSE IF pattern.t = "regexp"
        THEN IF n = 3 THEN PatternResult(RegExpOf(pattern.s, flags), TRUE, obj, m)
             ELSE PatternResult(pattern, FALSE, obj, m)
        ELSE Throw(obj, m,
                   "shapeOf.string.pattern() only accepts strings and RegExp objects as an argument")

\* _shapeOf_oneOf(...args) with the value last
_shapeOf_oneOf(args, obj, m) ==
    LET list == _flattenArgs(args)
    IN  IF Len(args) + 1 < 2
        THEN Throw(obj, m, "oneOf validator requires at least one argument")
        ELSE IF \E i \in 1..Len(list) : StrictEq(AsValue(list[i]), obj)
        THEN Res(obj, obj, TRUE, m)
        ELSE Res(Undef, obj, TRUE, m)

\* callback(...args, obj) for the callbacks of the core validators.  The
\* _shapeOf_number_range(min, max, obj) with the bounds taken as given:
\* what the callback would be without Math.min and Math.max.
NumberRangeAsGiven(min, max, obj) ==
    IF min.t = "number" /\ max.t = "number" /\ obj.t = "number"
       /\ Twice(obj) <= Twice(max) /\ Twice(obj) >= Twice(min)
    THEN obj ELSE Undef

\* _shapeOf_number_range(min, max, obj): obj if it lies between
\* Math.min(min, max) and Math.max(min, max), undefined otherwise.
_shapeOf_number_range(min, max, obj) ==
    IF min.t = "number" /\ max.t = "number" /\ obj.t = "number"
       /\ Twice(obj) <= Max(Twice(min), Twice(max))
       /\ Twice(obj) >= Min(Twice(min), Twice(max))
    THEN obj ELSE Undef

\* comparisons of numbers are those of numbers: a value that is not a
\* number compares as NaN does, which holds of every value a chain of the
\* registry lets through to a comparison.
ApplyCallback(callback, args, obj, m) ==
    LET n == Len(args) + 1
        a1 == Actual(args, obj, 1)
        a2 == Actual(args, obj, 2)
        a3 == Actual(args, obj, 3)
        Give(test, v, i) == IF test THEN Res(v, obj, i = n, m) ELSE Res(Undef, obj, TRUE, m)
    IN
    CASE callback = "_shapeOf_number" -> Give(a1.t = "number", a1, 1)
      [] callback = "_shapeOf_integer" -> Give(_isInteger(a1), a1, 1)
      [] callback = "_shapeOf_string" -> Give(a1.t = "string", a1, 1)
      [] callback = "_shapeOf_array" -> Give(a1.t = "array", a1, 1)
      [] callback = "_shapeOf_bool" -> Give(a1.t = "boolean", a1, 1)
      [] callback = "_shapeOf_object" -> Give(a1.t \in {"array", "object"}, a1, 1)
      [] callback = "_shapeOf_null" -> Give(a1.t = "null", a1, 1)
      [] callback = "_shapeOf_primitive" ->
            Give((a1.t \in {"string", "boolean", "number"} /\ Truthy(a1)) \/ a1.t = "null", a1, 1)
      [] callback = "_shapeOf_number_range" ->
            Give(IsDef(_shapeOf_number_range(a1, a2, a3)), a3, 3)
      [] callback = "_shapeOf_greaterThanOrEqualTo" ->
            Give(a1.t = "number" /\ a2.t = "number" /\ Twice(a2) >= Twice(a1), a2, 2)
      [] callback = "_shapeOf_lessThanOrEqualTo" ->
            Give(a1.t = "number" /\ a2.t = "number" /\ Twice(a2) <= Twice(a1), a2, 2)
      [] callback = "_shapeOf_length" -> _shapeOf_length(args, obj, m)
      [] callback = "_shapeOf_string_pattern" -> _shapeOf_string_pattern(args, obj, m)
      [] callback = "_shapeOf_oneOf" -> _shapeOf_oneOf(args, obj, m)
      [] callback = "_shapeOf_arrayOf" -> _shapeOf_arrayOf(args, obj, m)
      [] callback = "_shapeOf_objectOf" -> _shapeOf_objectOf(args, obj, m)
      [] callback = "_shapeOf_oneOfType" -> _shapeOf_oneOfType(args, obj, m)
      [] callback = "_shapeOf_eachOf" -> _shapeOf_eachOf(args, obj, m)
      [] OTHER -> Res(Undef, obj, TRUE, m)

\* if (validShape) return obj: l is what the loop over the n elements gave
\* (validShape stays undefined when there is no element).
OfResult(l, n) ==
    IF Thrown(l.m) \/ ~l.ok \/ n = 0 THEN Res(Undef, l.obj, TRUE, l.m)
    ELSE Res(l.obj, l.obj, TRUE, l.m)

\* _shapeOf_arrayOf(...args) with the value last
_shapeOf_arrayOf(args, obj, m) ==
    IF Len(args) + 1 < 2
    THEN Throw(obj, m, "arrayOf validator requires at least one argument")
    ELSE IF obj.t # "array" THEN Res(Undef, obj, TRUE, m)
    ELSE OfResult(OfElementsLoop(obj, ObjectKeys(obj), _flattenArgs(args), Len(obj.kids),
                                 m, m.path),
                  Len(obj.kids))

\* _shapeOf_objectOf(...args) with the value last
_shapeOf_objectOf(args, obj, m) ==
    IF Len(args) + 1 < 2
    THEN Throw(obj, m, "objectOf validator requires at least one argument")
    ELSE IF ~TypeofObject(obj) \/ obj.t = "null" THEN Res(Undef, obj, TRUE, m)
    ELSE OfResult(OfElementsLoop(obj, ObjectKeys(obj), _flattenArgs(args),
                                 Len(ObjectKeys(obj)), m, m.path),
                  Len(ObjectKeys(obj)))

\* The outer loop of arrayOf and objectOf, from element j down; ok is
\* validShape after the elements visited.
OfElementsLoop(obj, objKeys, types, j, m, path) ==
    IF j = 0 THEN [ok |-> TRUE, obj |-> obj, m |-> m]
    ELSE OfElementsNext(obj, objKeys, types, j, path,
                        OfTypesLoop(Get(obj, objKeys[j]), types, Len(types), m,
                                    Append(path, objKeys[j])))

\* The rest of the outer loop after the types were tried on element j.
OfElementsNext(obj, objKeys, types, j, path, t) ==
    IF Thrown(t.m) \/ ~t.ok THEN [ok |-> FALSE, obj |-> Put(obj, objKeys[j], t.obj), m |-> t.m]
    ELSE OfElementsLoop(Put(obj, objKeys[j], t.obj), objKeys, types, j - 1, t.m, path)

\* The inner loop of arrayOf and objectOf, from type i down; obj is the
\* element as the loop leaves it.
OfTypesLoop(val, types, i, m, path) ==
    IF i = 0 THEN [ok |-> FALSE, obj |-> val, m |-> m]
    ELSE LET r == _shouldBe(ReturnsObjectOptions, val, types[i], At(m, path, TRUE))
         IN  IF Thrown(r.m) THEN [ok |-> FALSE, obj |-> r.obj, m |-> r.m]
             ELSE IF IsDef(r.rtn) THEN [ok |-> TRUE, obj |-> r.rtn, m |-> r.m]
             ELSE OfTypesLoop(r.obj, types, i - 1, r.m, path)

\* _shapeOf_oneOfType(...args) with the value last
_shapeOf_oneOfType(args, obj, m) ==
    IF Len(args) + 1 < 2
    THEN Throw(obj, m, "oneOfType validator requires at least one argument")
    ELSE OneOfTypeLoop(obj, _flattenArgs(args), 1, m, m.path)

OneOfTypeLoop(obj, list, i, m, path) ==
    IF i > Len(list) THEN Res(Undef, obj, TRUE, m)
    ELSE LET r == _shouldBe(ExactlyOptions, obj, list[i], At(m, path, FALSE))
         IN  IF Thrown(r.m) THEN Res(Undef, r.obj, TRUE, r.m)
             ELSE IF IsDef(r.rtn) THEN Res(r.obj, r.obj, TRUE, r.m)
             ELSE OneOfTypeLoop(r.obj, list, i + 1, r.m, path)

\* _shapeOf_eachOf(...args) with the value last
_shapeOf_eachOf(args, obj, m) ==
    IF Len(args) + 1 < 2
    THEN Throw(obj, m, "eachOfType validator requires at least one argument")
    ELSE EachOfLoop(obj, _flattenArgs(args), 1, m, m.path)

\* The loop of eachOf from type i - 1 on; its log entries go to the
\* options shapeOf._lastShouldBeOptions names.
EachOfLoop(obj, list, i, m, path) ==
    IF i > Len(list)
    THEN Res(obj, obj, TRUE,
             _validationLog(m.last.returnsResults, m, "Passed: Validator 'shapeOf.eachOf'",
                            "", <<obj>>))
    ELSE LET r == _shouldBe(ExactlyOptions, obj, list[i], At(m, path, FALSE))
         IN  IF Thrown(r.m) THEN Res(Undef, r.obj, TRUE, r.m)
             ELSE IF ~IsDef(r.rtn)
             THEN Res(Undef, r.obj, TRUE,
                      IF isValidator(list[i])
                      THEN _validationLog(r.m.last.returnsResults, r.m,
                                          "Failed: Validator 'shapeOf.eachOf' ->",
                                          list[i].pub._name, <<r.obj>>)
                      ELSE _validationLog(r.m.last.returnsResults, r.m,
                                          "Failed: Validator 'shapeOf.eachOf' -> index",
                                          IndexNames[i], <<r.obj>>))
             ELSE EachOfLoop(r.obj, list, i + 1, r.m, path)

---------------------------------------------------------------------------
(***************************************************************************)
(* Serialization.  A descriptor node is a record of one shape:             *)
(*   type     : "primitive", "object", "field", "array", "validator",      *)
(*              "regexp"                                                   *)
(*   name     : the name of a field or of a validator                      *)
(*   has, value : whether the node has a value property that is a          *)
(*              primitive or a string, and that value                      *)
(*   kids     : the descriptors in value (fields, elements, or the one     *)
(*              descriptor of a field's value)                             *)
(*   flags    : the flags of a regexp                                      *)
(*   optional : the optional property of a validator                       *)
(*   callChain: the links of a validator, [name, args]                     *)
(* A result is [d, thrown] or [schema, thrown]: thrown is "none" or what   *)
(* the call threw.                                                         *)
(***************************************************************************)
Desc(type, name, has, value, kids, flags, optional, callChain) ==
    [type |-> type, name |-> name, has |-> has, value |-> value, kids |-> kids,
     flags |-> flags, optional |-> optional, callChain |-> callChain]

NoDesc == Desc("", "", FALSE, Undef, <<>>, <<>>, FALSE, <<>>)

\* A plain function as a value: it keeps its name.
FunctionValue(name) == Val("function", 0, <<name>>, <<>>, <<>>)

\* cs.split(sep) for a string of characters and a separator of one.
RECURSIVE Split(_, _, _, _)
Split(cs, sep, i, parts) ==
    IF i > Len(cs) THEN parts
    ELSE IF cs[i] = sep THEN Split(cs, sep, i + 1, Append(parts, <<>>))
    ELSE Split(cs, sep, i + 1, [parts EXCEPT ![Len(parts)] = Append(@, cs[i])])

\* parts.join(sep)
RECURSIVE Join(_, _, _)
Join(parts, sep, i) ==
    IF i > Len(parts) THEN <<>>
    ELSE (IF i > 1 THEN <<sep>> ELSE <<>>) \o parts[i] \o Join(parts, sep, i + 1)

\* RegExp.prototype.toString(): /source/flags
RegExpToString(v) == <<"/">> \o v.s \o <<"/">> \o v.keys

\* The regexp branch of _serialize: the text of the RegExp is split at '/',
\* the last part is the flags, the first is dropped, the rest is the source.
SerializeRegExp(v) ==
    LET expr == Split(RegExpToString(v), "/", 1, <<<<>>>>)
    IN  Desc("regexp", "", TRUE, Str(Join(SubSeq(expr, 2, Len(expr) - 1), "/", 1)), <<>>,
             expr[Len(expr)], FALSE, <<>>)

SOk(d) == [d |-> d, thrown |-> "none"]

SThrow(what) == [d |-> NoDesc, thrown |-> what]

RECURSIVE _serialize(_)
RECURSIVE SerializeEach(_, _, _)
RECURSIVE SerializeNext(_, _, _, _)
RECURSIVE SerializeLinks(_, _, _)
RECURSIVE SerializeLinksNext(_, _, _, _)

\* The loop over the elements: the descriptors of nodes from i on appended
\* to ds, or what one of them threw.
SerializeEach(nodes, i, ds) ==
    IF i > Len(nodes) THEN [ds |-> ds, thrown |-> "none"]
    ELSE SerializeNext(nodes, i, ds, _serialize(nodes[i]))

SerializeNext(nodes, i, ds, r) ==
    IF r.thrown # "none" THEN [ds |-> ds, thrown |-> r.thrown]
    ELSE SerializeEach(nodes, i + 1, Append(ds, r.d))

\* The loop of _serializeValidator over the links.
SerializeLinks(links, i, slinks) ==
    IF i > Len(links) THEN [ds |-> slinks, thrown |-> "none"]
    ELSE SerializeLinksNext(links, i, slinks, SerializeEach(links[i].args, 1, <<>>))

SerializeLinksNext(links, i, slinks, sargs) ==
    IF sargs.thrown # "none" THEN [ds |-> slinks, thrown |-> sargs.thrown]
    ELSE SerializeLinks(links, i + 1, Append(slinks, [name |-> links[i].name, args |-> sargs.ds]))

\* The descriptor an element loop gave, or what it threw.
Wrapped(l, d) == IF l.thrown # "none" THEN SThrow(l.thrown) ELSE SOk(d)

\* _serializeValidator(validator); no validator of the registry has a
\* _serialize of its own.
_serializeValidator(validator, l) ==
    Wrapped(l, Desc("validator", validator.pub._name, FALSE, Undef, <<>>, <<>>,
                    validator.pub._optional, l.ds))

SerializeArray(l) == Wrapped(l, Desc("array", "", FALSE, Undef, l.ds, <<>>, FALSE, <<>>))

\* The fields of an object map: {type: 'field', name: key, value: ...}
SerializeObject(keys, l) ==
    Wrapped(l, Desc("object", "", FALSE, Undef,
                    [i \in 1..Len(l.ds) |->
                        Desc("field", keys[i], FALSE, Undef, <<l.ds[i]>>, <<>>, FALSE, <<>>)],
                    <<>>, FALSE, <<>>))

\* _serialize(obj).  Reading obj.toJSON of null or undefined is a
\* TypeError; no schema of the model has a toJSON or serialize property.
_serialize(obj) ==
    CASE obj.k = "lit" /\ obj.lit.t \in {"null", "undefined"} -> SThrow("TypeError")
      [] obj.k = "val" ->
            _serializeValidator(obj, SerializeLinks(obj.pub._callChain, 1, <<>>))
      [] obj.k = "arr" -> SerializeArray(SerializeEach(obj.kids, 1, <<>>))
      [] obj.k = "lit" /\ obj.lit.t = "regexp" -> SOk(SerializeRegExp(obj.lit))
      [] obj.k = "map" -> SerializeObject(obj.keys, SerializeEach(obj.kids, 1, <<>>))
      [] obj.k = "fn" ->
            SOk(Desc("primitive", "", TRUE, FunctionValue(obj.fn), <<>>, <<>>, FALSE, <<>>))
      [] OTHER -> SOk(Desc("primitive", "", TRUE, obj.lit, <<>>, <<>>, FALSE, <<>>))

\* JSON.parse(JSON.stringify(d)) of a descriptor: a property whose value is
\* undefined or a function is left out, everything else of a descriptor
\* (strings, finite numbers, booleans, null, arrays, objects) comes back
\* as it was.
RECURSIVE JSONRoundTrip(_)
JSONRoundTrip(d) ==
    [d EXCEPT
        !.has = @ /\ d.value.t \notin {"undefined", "function"},
        !.value = IF d.value.t \in {"undefined", "function"} THEN Undef ELSE @,
        !.kids = [i \in 1..Len(d.kids) |-> JSONRoundTrip(d.kids[i])],
        !.callChain = [i \in 1..Len(d.callChain) |->
                          [name |-> d.callChain[i].name,
                           args |-> [j \in 1..Len(d.callChain[i].args) |->
                                        JSONRoundTrip(d.callChain[i].args[j])]]]]

\* The decimal digits and their values.
Digits == <<"0", "1", "2", "3", "4", "5", "6", "7", "8", "9">>

DigitValue(c) == (CHOOSE i \in 1..10 : Digits[i] = c) - 1

IsDigit(c) == \E i \in 1..10 : Digits[i] = c

\* Not-a-number, as parseInt gives it; it compares false with everything.
NaN == -1

\* parseInt(cs): the number of the leading digits, NaN if there is none.
RECURSIVE ParseDigits(_, _, _)
ParseDigits(cs, i, n) ==
    IF i > Len(cs) \/ ~IsDigit(cs[i]) THEN n
    ELSE ParseDigits(cs, i + 1, 10 * n + DigitValue(cs[i]))

parseInt(cs) == IF cs = <<>> \/ ~IsDigit(cs[1]) THEN NaN ELSE ParseDigits(cs, 1, 0)

\* a >= b and a > b for numbers that may be NaN
Ge(a, b) == a # NaN /\ b # NaN /\ a >= b

Gt(a, b) == a # NaN /\ b # NaN /\ a > b

\* _isCompatibileVersion(currentVer, compatibleVer) for two strings: what
\* it returns, and what it throws.
_isCompatibileVersion(currentVer, compatibleVer) ==
    LET cur == Split(currentVer, ".", 1, <<<<>>>>)
        com == Split(compatibleVer, ".", 1, <<<<>>>>)
        c == [i \in 1..3 |-> parseInt(cur[i])]
        k == [i \in 1..3 |-> parseInt(com[i])]
    IN  IF Len(cur) # 3 \/ Len(com) # 3 THEN [rtn |-> FALSE, thrown |-> "Bad version format"]
        ELSE [rtn |-> /\ Ge(c[1], k[1])
                      /\ (Ge(c[2], k[2]) \/ Gt(c[1], k[1]))
                      /\ (Ge(c[3], k[3]) \/ Gt(c[2], k[2])),
              thrown |-> "none"]

\* shapeOf.version and shapeOf.compatibleSchemaVersion
version == <<"0", ".", "0", ".", "8">>

compatibleSchemaVersion == <<"0", ".", "0", ".", "8">>

DOk(schema) == [schema |-> schema, thrown |-> "none"]

DThrow(what) == [schema |-> Lit(Undef), thrown |-> what]

RECURSIVE _deserialize(_, _)
RECURSIVE DeserializeEach(_, _, _, _)
RECURSIVE DeserializeNext(_, _, _, _, _)
RECURSIVE _deserializeValidator(_, _, _, _)
RECURSIVE DeserializeLink(_, _, _, _, _)
RECURSIVE LinkedNext(_, _, _)

\* obj.value.forEach / link.args.forEach: the schemas of the descriptors
\* from i on appended to nodes, or what one of them threw.
DeserializeEach(ds, i, nodes, inObject) ==
    IF i > Len(ds) THEN [nodes |-> nodes, thrown |-> "none"]
    ELSE DeserializeNext(ds, i, nodes, inObject, _deserialize(ds[i], inObject))

DeserializeNext(ds, i, nodes, inObject, r) ==
    IF r.thrown # "none" THEN [nodes |-> nodes, thrown |-> r.thrown]
    ELSE DeserializeEach(ds, i + 1, Append(nodes, r.schema), inObject)

\* rtn[simpleName], or validator, with the arguments if there are any.
Linked(hasRtn, rtn, validator, simpleName, args) ==
    LET target == IF hasRtn THEN Sub(rtn, simpleName) ELSE validator
    IN  IF args = <<>> THEN DOk(target)
        ELSE IF ArgHandlerThrows(target, args) THEN DThrow("Validator requires at least")
        ELSE DOk(_validatorArgHandler(target, args))

\* One round of obj.callChain.forEach, args being the deserialized
\* arguments of the link.
DeserializeLink(obj, i, hasRtn, rtn, args) ==
    LET link == obj.callChain[i]
        simpleName == LastSegment(link.name)
    IN  IF args.thrown # "none" THEN DThrow(args.thrown)
        ELSE IF link.name \notin DOMAIN _validators THEN DThrow("Validator not found")
        ELSE IF hasRtn /\ IndexOf(rtn.keys, simpleName) = 0
        THEN DThrow("Cannot find sub-validator")
        ELSE LinkedNext(obj, i, Linked(hasRtn, rtn, _validators[link.name], simpleName,
                                       args.nodes))

\* The rest of the loop after a link gave next.
LinkedNext(obj, i, next) ==
    IF next.thrown # "none" THEN next ELSE _deserializeValidator(obj, i + 1, TRUE, next.schema)

\* _deserializeValidator(obj), from link i on; a descriptor without links
\* gives undefined.
_deserializeValidator(obj, i, hasRtn, rtn) ==
    IF obj.name = "" THEN DThrow("Malformed validator")
    ELSE IF i > Len(obj.callChain) THEN DOk(IF hasRtn THEN rtn ELSE Lit(Undef))
    ELSE IF obj.callChain[i].name = "" THEN DThrow("Malformed validator")
    ELSE DeserializeLink(obj, i, hasRtn, rtn,
                         DeserializeEach(obj.callChain[i].args, 1, <<>>, FALSE))

\* What an element loop gave as a schema node, or what it threw.
Unwrapped(l, schema) == IF l.thrown # "none" THEN DThrow(l.thrown) ELSE DOk(schema)

\* The array branch.
DeserializeArray(l) == Unwrapped(l, ArrLit(l.nodes))

\* The object branch: the fields give the keys and the values.
DeserializeObject(obj, l) ==
    Unwrapped(l, Map([i \in 1..Len(obj.kids) |-> obj.kids[i].name], l.nodes))

\* _deserialize(obj, parent); inObject tells that a parent is given.  A
\* field gives the schema of its value, which its object stores under the
\* field's name.
_deserialize(obj, inObject) ==
    CASE obj.type = "" -> DThrow("Object isn't a valid type")
      [] obj.type \in {"primitive", "regexp"} /\ ~obj.has -> DThrow("Object missing value")
      [] obj.type = "field" /\ obj.kids = <<>> -> DThrow("Object missing value")
      [] obj.type = "object" -> DeserializeObject(obj, DeserializeEach(obj.kids, 1, <<>>, TRUE))
      [] obj.type = "field" ->
            IF obj.name = "" THEN DThrow("Illegal/missing field name for object")
            ELSE IF ~inObject THEN DThrow("No parent present for 'field' type")
            ELSE _deserialize(obj.kids[1], FALSE)
      [] obj.type = "array" ->
            DeserializeArray(DeserializeEach(obj.kids, 1, <<>>, FALSE))
      [] obj.type = "primitive" ->
            DOk(IF obj.value.t = "function" THEN Fn(obj.value.s[1]) ELSE Lit(obj.value))
      [] obj.type = "validator" -> _deserializeValidator(obj, 1, FALSE, Lit(Undef))
      [] obj.type = "regexp" -> DOk(Lit(RegExpOf(obj.value.s, obj.flags)))
      [] OTHER -> DThrow("Unknown object type")

\* The envelope of shapeOf.serialize; text tells that it is JSON text.
Envelope(d, text) ==
    [_shapeOfVersion |-> version, _shapeOfSchemaVersion |-> compatibleSchemaVersion,
     schema |-> d, text |-> text]

NoEnvelope == [_shapeOfVersion |-> <<>>, _shapeOfSchemaVersion |-> <<>>, schema |-> NoDesc,
               text |-> FALSE]

\* The end of shapeOf.serialize: r is what _serialize gave.  JSON text is
\* kept as what JSON.parse reads from it.
Enveloped(returnsObject, r) ==
    IF r.thrown # "none" THEN [env |-> NoEnvelope, thrown |-> r.thrown]
    ELSE [env |-> Envelope(IF returnsObject THEN r.d ELSE JSONRoundTrip(r.d), ~returnsObject),
          thrown |-> "none"]

\* shapeOf.serialize(schema, options)
serialize(schema, returnsObject) == Enveloped(returnsObject, _serialize(schema))

\* The version check of shapeOf.deserialize and the call it ends with: c is
\* what _isCompatibileVersion gave.
Compatible(serializedSchema, c) ==
    IF c.thrown # "none" THEN DThrow(c.thrown)
    ELSE IF ~c.rtn THEN DThrow("Incompatible schema versions")
    ELSE _deserialize(serializedSchema.schema, FALSE)

\* shapeOf.deserialize(serializedSchema); an empty string is falsy.
deserialize(serializedSchema) ==
    IF serializedSchema._shapeOfVersion = <<>> \/ serializedSchema._shapeOfSchemaVersion = <<>>
    THEN DThrow("Object doesn't appear to be a valid shapeOf schema.")
    ELSE Compatible(serializedSchema,
                    _isCompatibileVersion(compatibleSchemaVersion,
                                          serializedSchema._shapeOfSchemaVersion))

---------------------------------------------------------------------------
(***************************************************************************)
(* The builders.  shapeOf(obj) and every toggle give an object whose       *)
(* terminal calls and callback toggles are bound to copies of the options  *)
(* accumulated so far.  The copies are shallow: a callback list is shared  *)
(* by every copy that holds it, so the model keeps the lists in a heap     *)
(* (arrays) and the options hold a position in it, 0 for no list.  A       *)
(* builder made by throwsOnInvalid is also a function, bound to the very   *)
(* options object it was built from (live), which a call of it writes.     *)
(* parent, via and the reg fields are history: where the builder came from *)
(* and what was registered on the way to it.                               *)
(***************************************************************************)
Root ==
    [returnsObject |-> FALSE, returnsResults |-> FALSE, throwsOnInvalid |-> FALSE,
     errorObj |-> "undefined", onValid |-> 0, onInvalid |-> 0, onComplete |-> 0,
     callable |-> FALSE, live |-> "undefined", parent |-> 0, via |-> "shapeOf",
     regValid |-> <<>>, regInvalid |-> <<>>, regComplete |-> <<>>, regError |-> "undefined"]

\* Exclusions that leave the other output mode on offer.
BuildExclusionsOwn(options) ==
    (IF options.returnsObject THEN {"returnsObject"} ELSE {})
    \cup (IF options.returnsResults THEN {"returnsResults"} ELSE {})
    \cup (IF options.throwsOnInvalid THEN {"throwsOnInvalid"} ELSE {})

\* _buildExclusions(options): the toggles a builder does not offer
_buildExclusions(options) ==
    (IF options.returnsObject \/ options.returnsResults
     THEN {"returnsObject", "returnsResults"} ELSE {})
    \cup (IF options.throwsOnInvalid THEN {"throwsOnInvalid"} ELSE {})

\* _buildActions(thisObj, obj, options), for the options of builder b and
\* the toggle that asked for it: a plain object unless options.baseObject
\* is set, which only _buildThrowsOnExceptionActions does.
_buildActions(options, b, via) ==
    [options EXCEPT !.callable = FALSE, !.live = "undefined", !.parent = b, !.via = via]

\* _returnsObject(thisObj, options)
_returnsObject(options, b) ==
    _buildActions([options EXCEPT !.returnsObject = TRUE], b, "returnsObject")

\* _returnsResults(thisObj, options)
_returnsResults(options, b) ==
    _buildActions([options EXCEPT !.returnsResults = TRUE], b, "returnsResults")

\* _buildThrowsOnExceptionActions(thisObj, obj, options): extOptions is
\* the object the new builder's function stays bound to.
_buildThrowsOnExceptionActions(options, b, via) ==
    [options EXCEPT !.throwsOnInvalid = TRUE, !.callable = TRUE, !.live = options.errorObj,
                    !.parent = b, !.via = via]

\* The options object _throwsOnInvalid(thisObj, options, errorObj) works
\* on, after its assignment: the live options of the builder called.
LiveOptions(builder, errorObj) ==
    [builder EXCEPT !.errorObj = IF TruthyError(errorObj) THEN errorObj ELSE builder.live]

\* _throwsOnInvalid(thisObj, options, errorObj), on the live options
_throwsOnInvalid(builder, b, errorObj) ==
    [_buildThrowsOnExceptionActions(LiveOptions(builder, errorObj), b, "throwsOnInvalid()")
        EXCEPT !.regError = IF errorObj # "undefined" THEN errorObj ELSE builder.regError]

\* The callback list of a builder's options, as it is now.
Callbacks(arrays, at) == IF at = 0 THEN <<>> ELSE arrays[at]

\* callbacks = options.onX || []; callbacks.push(callback): the heap after
\* the push, and the position of the list pushed to.
PushedAt(arrays, at) == IF at = 0 THEN Len(arrays) + 1 ELSE at

Push(arrays, at, callback) ==
    IF at = 0 THEN Append(arrays, <<callback>>)
    ELSE [arrays EXCEPT ![at] = Append(@, callback)]

\* _onValid(thisObj, options, callback)
_onValid(options, b, arrays, callback) ==
    _buildActions([options EXCEPT !.onValid = PushedAt(arrays, options.onValid),
                                  !.regValid = Append(@, callback)], b, "onValid")

\* _onInvalid(thisObj, options, callback)
_onInvalid(options, b, arrays, callback) ==
    _buildActions([options EXCEPT !.onInvalid = PushedAt(arrays, options.onInvalid),
                                  !.regInvalid = Append(@, callback)], b, "onInvalid")

\* _onComplete(thisObj, options, callback)
_onComplete(options, b, arrays, callback) ==
    _buildActions([options EXCEPT !.onComplete = PushedAt(arrays, options.onComplete),
                                  !.regComplete = Append(@, callback)], b, "onComplete")

\* The options a terminal call of a builder passes to _shouldBe:
\* { obj, ...options }, or { obj, exact: true, ...options }.
CallOptions(builder, arrays, exact) ==
    [exact |-> exact, returnsObject |-> builder.returnsObject,
     returnsResults |-> builder.returnsResults, throwsOnInvalid |-> builder.throwsOnInvalid,
     errorObj |-> builder.errorObj, onValid |-> Callbacks(arrays, builder.onValid),
     onInvalid |-> Callbacks(arrays, builder.onInvalid),
     onComplete |-> Callbacks(arrays, builder.onComplete)]

\* What _shouldBe returns, by the output mode.  The record of returnsResults
\* is {success, log, obj}; its log is kept beside it.
Returned(options, r) ==
    IF options.returnsObject THEN r.rtn
    ELSE IF options.returnsResults
    THEN Obj(<<"success", "obj">>, <<Bool(IsDef(r.rtn)), r.obj>>)
    ELSE Bool(IsDef(r.rtn))

\* !_shouldBe(obj, schema)
Negated(returned) == Bool(~Truthy(returned))

---------------------------------------------------------------------------
(***************************************************************************)
(* The inputs: values and schemas of bounded size.                         *)
(***************************************************************************)
\* shapeOf.<name>, and a validator called with arguments
V(name) == _validators[name]

Called(validator, args) == _validatorArgHandler(validator, args)

X == Str(<<"x">>)

Scalars == {Null, Bool(TRUE), Bool(FALSE), X, Str(<<>>)} \cup {Num(n) : n \in 0..MaxNum}

FieldValues == {Num(1), X}

FlatObjects ==
    {Obj(<<>>, <<>>)}
    \cup {Obj(<<"a">>, <<v>>) : v \in FieldValues}
    \cup {Obj(<<"a", "b">>, <<v, w>>) : v \in FieldValues, w \in FieldValues}
    \cup {Obj(<<"foo">>, <<Num(n)>>) : n \in 1..MaxNum}

FlatArrays == UNION {[1..n -> FieldValues] : n \in 0..MaxLen}

FlatArrayValues == {Arr(kids) : kids \in FlatArrays}

Values ==
    Scalars \cup FlatObjects \cup FlatArrayValues
    \cup {Obj(<<"a">>, <<v>>) : v \in FlatObjects \cup FlatArrayValues}
    \cup {Arr(<<v>>) : v \in FlatObjects}

\* The RegExp object /x/g, and shapeOf.string.pattern given it, given the
\* string 'x', and given the RegExp with flags.
RegExpG == RegExpOf(<<"x">>, <<"g">>)

PatternOf(args) == Called(Sub(V("shapeOf.string"), "pattern"), args)

Patterns ==
    {PatternOf(<<Lit(RegExpG)>>), PatternOf(<<Lit(X)>>),
     PatternOf(<<Lit(RegExpG), Lit(Str(<<"g">>))>>)}

OptionalRange ==
    Called(Sub(V("shapeOf.optional.number"), "range"), <<Lit(Num(0)), Lit(Num(MaxNum))>>)

Leaves ==
    {V("shapeOf.number"), V("shapeOf.string"), V("shapeOf.optional.number"), OptionalRange,
     V("shapeOf.primitive"), Lit(Num(1)), Lit(Null), Fn("addOneMutator"), Fn("doubleMutator")}

SmallMaps ==
    {Map(<<>>, <<>>), Map(<<"foo">>, <<Fn("addOneMutator")>>)}
    \cup {Map(<<"a">>, <<l>>) : l \in Leaves}

PairMaps ==
    {Map(<<"a", "b">>, <<l, r>>) :
        l \in {V("shapeOf.string"), V("shapeOf.optional.number"), Fn("addOneMutator"), Lit(Null)},
        r \in {V("shapeOf.string"), V("shapeOf.number"), OptionalRange}}

Inner == Leaves \cup SmallMaps

Combined ==
    {Map(<<"a">>, <<s>>) : s \in SmallMaps}
    \cup {ArrLit(<<s>>) : s \in Inner}
    \cup {ArrLit(<<V("shapeOf.string"), s>>) : s \in {V("shapeOf.number"), Fn("addOneMutator")}}
    \cup {Called(V("shapeOf.arrayOf"), <<s>>) : s \in Inner}
    \cup {Called(V("shapeOf.objectOf"), <<s>>) : s \in Inner}
    \cup {Called(V("shapeOf.oneOfType"), <<s>>) : s \in Inner}
    \cup {Called(V("shapeOf.eachOf"), <<s>>) : s \in Inner}
    \cup {Called(V("shapeOf.oneOfType"), <<V("shapeOf.string"), s>>) : s \in SmallMaps}
    \cup {Map(<<"a">>, <<Called(V("shapeOf.arrayOf"), <<s>>)>>) : s \in SmallMaps}
    \cup {Fn("uppercaseMutator"), Map(<<"a">>, <<Fn("uppercaseMutator")>>),
          ArrLit(<<Fn("uppercaseMutator")>>),
          Map(<<"a">>, <<ArrLit(<<Fn("uppercaseMutator")>>)>>)}
    \cup Patterns
    \cup {Map(<<"a">>, <<s>>) : s \in Patterns}

Schemas == Leaves \cup SmallMaps \cup PairMaps \cup Combined

\* The schemas given to shapeOf.serialize, and values for them.
Chains ==
    {V("shapeOf.string"), V("shapeOf.optional.number"), OptionalRange,
     Called(Sub(V("shapeOf.string"), "ofSize"), <<Lit(Num(0)), Lit(Num(1))>>),
     Called(Sub(V("shapeOf.optional.string"), "size"), <<Lit(Num(1))>>),
     Called(Sub(Called(V("shapeOf.arrayOf"), <<V("shapeOf.string"), V("shapeOf.number")>>),
                "ofSize"), <<Lit(Num(1))>>),
     Sub(Called(V("shapeOf.arrayOf"), <<V("shapeOf.string")>>), "size"),
     Called(V("shapeOf.objectOf"), <<V("shapeOf.number")>>),
     Called(V("shapeOf.oneOfType"), <<ArrLit(<<V("shapeOf.string"), Lit(Num(1))>>)>>),
     Called(V("shapeOf.eachOf"), <<V("shapeOf.string"), PatternOf(<<Lit(X)>>)>>),
     Called(V("shapeOf.oneOf"), <<Lit(X), Lit(Num(0)), Lit(Bool(FALSE))>>)}
    \cup Patterns

SerialLeaves ==
    Chains \cup {Lit(Num(0)), Lit(Num(1)), Lit(X), Lit(Str(<<>>)), Lit(Bool(FALSE)), Lit(Null),
                 Lit(RegExpG), Fn("fooValidator")}

SerialSchemas ==
    SerialLeaves
    \cup {Map(<<>>, <<>>), ArrLit(<<>>)}
    \cup {Map(<<k>>, <<l>>) : k \in {"a", ""}, l \in SerialLeaves}
    \cup {Map(<<"b", "a">>, <<l, Map(<<"a">>, <<r>>)>>) : l \in Chains, r \in Chains}
    \cup {ArrLit(<<l, r>>) : l \in Chains, r \in {Lit(Num(1)), V("shapeOf.string"), Lit(Null)}}

SerialValues ==
    Scalars \cup {Str(<<>>), Num(0), Bool(FALSE)}
    \cup {Obj(<<k>>, <<v>>) : k \in {"a", ""}, v \in {Num(1), X, Null}}
    \cup {Obj(<<"b", "a">>, <<v, Obj(<<"a">>, <<w>>)>>) : v \in FieldValues, w \in FieldValues}
    \cup FlatArrayValues

\* The cases of the builder machine: a value and a schema for it.
StringPair == Map(<<"a", "b">>, <<V("shapeOf.string"), V("shapeOf.string")>>)

Cases ==
    { <<Obj(<<"a", "b">>, <<Num(1), X>>), StringPair>>,
      <<Obj(<<"a", "b">>, <<X, X>>), StringPair>>,
      <<Arr(<<X, Num(1)>>), ArrLit(<<V("shapeOf.string"), V("shapeOf.string")>>)>>,
      <<X, V("shapeOf.string")>>,
      <<Num(1), V("shapeOf.string")>> }

---------------------------------------------------------------------------
(***************************************************************************)
(* The state machine: the caller holds a value and a schema, derives       *)
(* builders from shapeOf(obj) and makes a terminal call on one of them.    *)
(***************************************************************************)
VARIABLES obj, schema, builders, arrays, chain, last, nid, lastIndex, call, serial, versions,
          registry, held, heap, defined, again

vars == <<obj, schema, builders, arrays, chain, last, nid, lastIndex, call, serial, versions,
          registry, held, heap, defined, again>>

\* The variables of the builder machine and of an evaluation.
evaluation == <<obj, schema, builders, arrays, chain, last, nid, lastIndex, call>>

\* What the caller holds of serialization: the stage reached ("none",
\* "serialized", "deserialized", "reserialized"), the option given, the
\* schema first serialized, the first envelope and the last one, and what
\* the last call threw.
NoSerial ==
    [stage |-> "none", returnsObject |-> FALSE, from |-> Lit(Undef), first |-> NoEnvelope,
     text |-> NoEnvelope, thrown |-> "none"]

\* What the caller holds of a version check: the two version strings, and
\* what _isCompatibileVersion and shapeOf.deserialize made of them.
NoVersions ==
    [currentVer |-> <<>>, compatibleVer |-> <<>>, checked |-> FALSE, rtn |-> FALSE,
     thrown |-> "none", deserialized |-> FALSE, raised |-> "none"]

\* What the caller holds of a validator defined with shapeOf.Validator: the
\* callback given, whether the options had a requiredArgsCount, and its
\* value.
NoDefined == [done |-> FALSE, callback |-> "", configured |-> FALSE, requiredArgsCount |-> 0]

\* The registry, the validator chains the caller holds, the arrays their
\* _callChain properties refer to, and the validator defined.
chains == <<registry, held, heap, defined>>

\* The variables the builder machine leaves alone.
aside == <<serial, versions, chains, again>>

NoCall ==
    [kind |-> "none", b |-> 0, options |-> NoCallOptions, pre |-> Undef, rtn |-> Undef,
     returned |-> Undef, thrown |-> "none", ev |-> <<>>, log |-> <<>>, muts |-> <<>>,
     links |-> <<>>, pops |-> <<>>]

Start ==
    /\ builders = <<Root>>
    /\ arrays = <<>>
    /\ chain = <<>>
    /\ last = NoFrame
    /\ nid = 0
    /\ lastIndex = 0
    /\ call = NoCall
    /\ serial = NoSerial
    /\ versions = NoVersions
    /\ registry = _validators
    /\ held = <<>>
    /\ heap = <<>>
    /\ defined = NoDefined
    /\ again = NoCall

Init == Start /\ \E c \in Cases : obj = c[1] /\ schema = c[2]

InitEval == Start /\ obj \in Values /\ schema \in Schemas

Offers(b, toggle) ==
    /\ call.kind = "none"
    /\ b \in DOMAIN builders
    /\ Len(builders) <= MaxToggles
    /\ toggle \notin _buildExclusions(builders[b])

\* A builder holds its returnsObject, returnsResults and throwsOnInvalid
\* builders from the time it is built: reading the property again gives
\* the same builder.
Fresh(b, via) == \A c \in DOMAIN builders : ~(builders[c].parent = b /\ builders[c].via = via)

ReturnsObject(b) ==
    /\ Offers(b, "returnsObject") /\ Fresh(b, "returnsObject")
    /\ builders' = Append(builders, _returnsObject(builders[b], b))
    /\ UNCHANGED <<obj, schema, arrays, chain, last, nid, lastIndex, call, aside>>

ReturnsResults(b) ==
    /\ Offers(b, "returnsResults") /\ Fresh(b, "returnsResults")
    /\ builders' = Append(builders, _returnsResults(builders[b], b))
    /\ UNCHANGED <<obj, schema, arrays, chain, last, nid, lastIndex, call, aside>>

ThrowsOnInvalid(b) ==
    /\ Offers(b, "throwsOnInvalid") /\ Fresh(b, "throwsOnInvalid")
    /\ builders' = Append(builders,
                          _buildThrowsOnExceptionActions(builders[b], b, "throwsOnInvalid"))
    /\ UNCHANGED <<obj, schema, arrays, chain, last, nid, lastIndex, call, aside>>

ThrowsOnInvalidCall(b, errorObj) ==
    /\ Offers(b, "throwsOnInvalid()") /\ builders[b].callable
    /\ builders' = Append([builders EXCEPT ![b].live = LiveOptions(builders[b], errorObj).errorObj],
                          _throwsOnInvalid(builders[b], b, errorObj))
    /\ UNCHANGED <<obj, schema, arrays, chain, last, nid, lastIndex, call, aside>>

\* The callback registered is a new function each time; its name is its
\* number among the builders.
OnValid(b) ==
    /\ Offers(b, "onValid")
    /\ builders' = Append(builders, _onValid(builders[b], b, arrays, Len(builders)))
    /\ arrays' = Push(arrays, builders[b].onValid, Len(builders))
    /\ UNCHANGED <<obj, schema, chain, last, nid, lastIndex, call, aside>>

OnInvalid(b) ==
    /\ Offers(b, "onInvalid")
    /\ builders' = Append(builders, _onInvalid(builders[b], b, arrays, Len(builders)))
    /\ arrays' = Push(arrays, builders[b].onInvalid, Len(builders))
    /\ UNCHANGED <<obj, schema, chain, last, nid, lastIndex, call, aside>>

OnComplete(b) ==
    /\ Offers(b, "onComplete")
    /\ builders' = Append(builders, _onComplete(builders[b], b, arrays, Len(builders)))
    /\ arrays' = Push(arrays, builders[b].onComplete, Len(builders))
    /\ UNCHANGED <<obj, schema, chain, last, nid, lastIndex, call, aside>>

\* What a terminal call leaves: r is what _shouldBe gave for the options.
Made(b, kind, options, r) ==
    /\ obj' = r.obj
    /\ chain' = r.m.chain
    /\ last' = r.m.last
    /\ nid' = r.m.nid
    /\ lastIndex' = r.m.lastIndex
    /\ call' = [kind |-> kind, b |-> b, options |-> options, pre |-> obj, rtn |-> r.rtn,
                returned |-> IF Thrown(r.m) THEN Undef
                             ELSE IF kind = "shouldNotBe" THEN Negated(Returned(options, r))
                             ELSE Returned(options, r),
                thrown |-> r.m.thrown, ev |-> r.m.ev, log |-> r.m.log, muts |-> r.m.muts,
                links |-> r.m.links, pops |-> r.m.pops]

\* The call of _shouldBe with the options bound to a terminal call.
Bound(b, kind, options) ==
    Made(b, kind, options,
         _shouldBe(options, obj, schema,
                   [NewMachine EXCEPT !.chain = chain, !.last = last, !.nid = nid,
                                      !.lastIndex = lastIndex]))

\* The terminal calls of builder b: _shouldBe with the options bound to
\* them.
ShouldBe(b) ==
    /\ call.kind = "none"
    /\ b \in DOMAIN builders
    /\ Bound(b, "shouldBe", CallOptions(builders[b], arrays, FALSE))
    /\ UNCHANGED <<schema, builders, arrays, aside>>

ShouldBeExactly(b) ==
    /\ call.kind = "none"
    /\ b \in DOMAIN builders
    /\ Bound(b, "shouldBeExactly", CallOptions(builders[b], arrays, TRUE))
    /\ UNCHANGED <<schema, builders, arrays, aside>>

ShouldNotBe(b) ==
    /\ call.kind = "none"
    /\ b \in DOMAIN builders
    /\ Bound(b, "shouldNotBe", CallOptions(builders[b], arrays, FALSE))
    /\ UNCHANGED <<schema, builders, arrays, aside>>

Next ==
    \E b \in 1..(MaxToggles + 1) :
        \/ ReturnsObject(b)
        \/ ReturnsResults(b)
        \/ ThrowsOnInvalid(b)
        \/ \E errorObj \in ErrorObjs : ThrowsOnInvalidCall(b, errorObj)
        \/ OnValid(b)
        \/ OnInvalid(b)
        \/ OnComplete(b)
        \/ ShouldBe(b)
        \/ ShouldBeExactly(b)
        \/ ShouldNotBe(b)

Spec == Init /\ [][Next]_vars

\* The machine of one evaluation: any value against any schema, on the
\* builder of shapeOf(obj) or on its returnsObject.
NextEval ==
    \/ ReturnsObject(1)
    \/ \E b \in 1..(MaxToggles + 1) : ShouldBe(b) \/ ShouldBeExactly(b) \/ ShouldNotBe(b)

SpecEval == InitEval /\ [][NextEval]_vars

\* What the same terminal call leaves when it is made once more: the
\* second call is kept beside the first.
MadeAgain(r) ==
    /\ obj' = r.obj
    /\ chain' = r.m.chain
    /\ last' = r.m.last
    /\ nid' = r.m.nid
    /\ lastIndex' = r.m.lastIndex
    /\ again' = [call EXCEPT !.pre = obj, !.rtn = r.rtn,
                             !.returned = IF Thrown(r.m) THEN Undef
                                          ELSE IF call.kind = "shouldNotBe"
                                          THEN Negated(Returned(call.options, r))
                                          ELSE Returned(call.options, r),
                             !.thrown = r.m.thrown, !.ev = r.m.ev, !.log = r.m.log,
                             !.muts = r.m.muts, !.links = r.m.links,
                             !.pops = r.m.pops]

\* The terminal call made, made once more on the same builder with the
\* same schema object.
Again ==
    /\ call.kind # "none"
    /\ again.kind = "none"
    /\ MadeAgain(_shouldBe(call.options, obj, schema,
                           [NewMachine EXCEPT !.chain = chain, !.last = last, !.nid = nid,
                                              !.lastIndex = lastIndex]))
    /\ UNCHANGED <<schema, builders, arrays, call, serial, versions, chains>>

\* The machine of the calls that return results: any value against any
\* schema, on the builder of shapeOf(obj) or on its returnsResults, once
\* and once more.
NextResults ==
    \/ ReturnsResults(1)
    \/ \E b \in 1..(MaxToggles + 1) : ShouldBe(b) \/ ShouldBeExactly(b) \/ ShouldNotBe(b)
    \/ Again

SpecResults == InitEval /\ [][NextResults]_vars

\* The numbers of the range checks: integers from -1 and the numbers
\* halfway between them.
RangeNumbers == {Num(i) : i \in -1..(MaxNum + 1)} \cup {Half(i) : i \in -1..MaxNum}

\* shapeOf.number.range(min, max), shapeOf.integer.range(min, max)
RangeOf(parent, min, max) == Called(Sub(V(parent), "range"), <<Lit(min), Lit(max)>>)

RangeParents == {"shapeOf.number", "shapeOf.integer"}

\* The machine of the range checks: a number (or a string, or null)
\* against a range of any two numbers in either order.
InitRange ==
    /\ Start
    /\ obj \in RangeNumbers \cup {X, Null}
    /\ \E parent \in RangeParents, min \in RangeNumbers, max \in RangeNumbers :
          schema = RangeOf(parent, min, max)

NextRange == ShouldBe(1) \/ ShouldBeExactly(1) \/ ShouldNotBe(1)

SpecRange == InitRange /\ [][NextRange]_vars

\* shapeOf.serialize(schema, options) of the schema held: the first call
\* chooses the option, the call after a deserialization repeats it.
Serialized(returnsObject, r) ==
    serial' = IF r.thrown # "none" THEN [serial EXCEPT !.thrown = r.thrown]
              ELSE IF serial.stage = "none"
              THEN [stage |-> "serialized", returnsObject |-> returnsObject, from |-> schema,
                    first |-> r.env, text |-> r.env, thrown |-> "none"]
              ELSE [serial EXCEPT !.stage = "reserialized", !.text = r.env]

Serialize(returnsObject) ==
    /\ call.kind = "none" /\ serial.thrown = "none"
    /\ \/ serial.stage = "none"
       \/ serial.stage = "deserialized" /\ returnsObject = serial.returnsObject
    /\ Serialized(returnsObject, serialize(schema, returnsObject))
    /\ UNCHANGED <<evaluation, versions, chains, again>>

\* schema = shapeOf.deserialize(text): the schema held is the new one, and
\* a RegExp in it is a new object.
Deserialized(r) ==
    /\ schema' = IF r.thrown # "none" THEN schema ELSE r.schema
    /\ lastIndex' = IF r.thrown # "none" THEN lastIndex ELSE 0
    /\ serial' = IF r.thrown # "none" THEN [serial EXCEPT !.thrown = r.thrown]
                 ELSE [serial EXCEPT !.stage = "deserialized"]

Deserialize ==
    /\ call.kind = "none" /\ serial.thrown = "none" /\ serial.stage = "serialized"
    /\ Deserialized(deserialize(serial.text))
    /\ UNCHANGED <<obj, builders, arrays, chain, last, nid, call, versions, chains, again>>

InitSerial == Start /\ obj \in SerialValues /\ schema \in SerialSchemas

NextSerial ==
    \/ \E returnsObject \in BOOLEAN : Serialize(returnsObject)
    \/ Deserialize
    \/ ShouldBe(1)
    \/ ShouldBeExactly(1)

SpecSerial == InitSerial /\ [][NextSerial]_vars

\* String(n) for a natural number
RECURSIVE NumberToString(_)
NumberToString(n) ==
    IF n < 10 THEN <<Digits[n + 1]>>
    ELSE NumberToString(n \div 10) \o <<Digits[(n % 10) + 1]>>

\* The version string major.minor.patch
VersionString(t) ==
    NumberToString(t[1]) \o <<".">> \o NumberToString(t[2]) \o <<".">> \o NumberToString(t[3])

\* The version strings given: every triple of small numbers, and two
\* strings that are not triples.
VersionStrings ==
    {VersionString(t) : t \in (0..MaxVer) \X (0..MaxVer) \X (0..MaxVer)}
    \cup {<<"1", ".", "0">>, <<"1">>}

\* _isCompatibileVersion(currentVer, compatibleVer) of the strings held
Checked(c) == versions' = [versions EXCEPT !.checked = TRUE, !.rtn = c.rtn, !.thrown = c.thrown]

IsCompatibleVersion ==
    /\ ~versions.checked
    /\ Checked(_isCompatibileVersion(versions.currentVer, versions.compatibleVer))
    /\ UNCHANGED <<evaluation, serial, chains, again>>

\* shapeOf.deserialize of an envelope whose _shapeOfSchemaVersion is the
\* compatible version held and whose schema is the descriptor of 1.
VersionedEnvelope ==
    [Envelope(Desc("primitive", "", TRUE, Num(1), <<>>, <<>>, FALSE, <<>>), TRUE)
        EXCEPT !._shapeOfSchemaVersion = versions.compatibleVer]

DeserializedVersion(r) ==
    versions' = [versions EXCEPT !.deserialized = TRUE, !.raised = r.thrown]

DeserializeVersion ==
    /\ ~versions.deserialized
    /\ DeserializedVersion(deserialize(VersionedEnvelope))
    /\ UNCHANGED <<evaluation, serial, chains, again>>

InitVersion ==
    /\ obj = Num(1) /\ schema = Lit(Num(1))
    /\ builders = <<Root>> /\ arrays = <<>> /\ chain = <<>> /\ last = NoFrame /\ nid = 0
    /\ lastIndex = 0 /\ call = NoCall /\ serial = NoSerial
    /\ registry = _validators /\ held = <<>> /\ heap = <<>> /\ defined = NoDefined
    /\ again = NoCall
    /\ \E c \in VersionStrings, k \in VersionStrings :
          versions = [NoVersions EXCEPT !.currentVer = c, !.compatibleVer = k]

NextVersion == IsCompatibleVersion \/ DeserializeVersion

SpecVersion == InitVersion /\ [][NextVersion]_vars

---------------------------------------------------------------------------
(***************************************************************************)
(* The validator chains a caller holds.  The _callChain of a validator is  *)
(* an array, and two validators may refer to one array: heap holds the     *)
(* arrays by their identity, and each chain held names the array its bound *)
(* properties refer to (ref), the array its public properties refer to     *)
(* (pubref) and those of its sub-validator properties (subs).  chain is    *)
(* the validator as it was when the caller got it.                         *)
(***************************************************************************)
MaxHeld == 4

NoError == [name |-> "", count |-> 0]

HeldChain(kind, name, validator, ref, pubref, subs, from, args, error) ==
    [kind |-> kind, name |-> name, chain |-> validator, ref |-> ref, pubref |-> pubref,
     subs |-> subs, from |-> from, args |-> args, error |-> error]

\* [].concat(array): a new array with the elements of the array ref names;
\* its identity is Len(h) + 1.
Concat(h, ref) == Append(h, h[ref])

\* array.pop()
Pop(h, ref) == [h EXCEPT ![ref] = SubSeq(@, 1, Len(@) - 1)]

\* array.push(link)
PushLink(h, ref, link) == [h EXCEPT ![ref] = Append(@, link)]

\* The name the validator of the README is registered by, and the callbacks
\* it is defined with: one of one parameter, (obj), and one of two,
\* (min, obj).
DefinedName == "myPackage.arrayWithBar"

DefinedCallbacks == {"_shapeOf_array", "_shapeOf_greaterThanOrEqualTo"}

\* shapeOf.Validator(name, callback, options) by the caller: options without
\* a requiredArgsCount, or with one of 0 or 1.
Define(callback, configured, requiredArgsCount) ==
    /\ ~defined.done
    /\ held = <<>>
    /\ ~configured => requiredArgsCount = 0
    /\ registry' = Validator(registry, DefinedName, callback,
                             [NoOptions EXCEPT !.requiredArgsCount = requiredArgsCount])
    /\ defined' = [done |-> TRUE, callback |-> callback, configured |-> configured,
                   requiredArgsCount |-> requiredArgsCount]
    /\ UNCHANGED <<evaluation, serial, versions, held, heap, again>>

\* The names a caller reads validators by.
TakenNames ==
    {"shapeOf.string.ofSize", "shapeOf.arrayOf", "shapeOf.optional.number", DefinedName}

\* The arrays of a registered validator: its own _callChain (the array of
\* its properties, which Object.assign shares with the function), then
\* the newCallChain of each sub-validator attached to it.
Taken(name, validator, h) ==
    /\ heap' = h \o <<validator.bound._callChain>>
                 \o [k \in 1..Len(validator.keys) |-> validator.kids[k].bound._callChain]
    /\ held' = Append(held,
                   HeldChain("take", validator.bound._name, validator, Len(h) + 1, Len(h) + 1,
                             [k \in 1..Len(validator.keys) |->
                                 [ref |-> Len(h) + 1 + k, pubref |-> Len(h) + 1 + k]],
                             0, <<>>, NoError))

\* shapeOf.Validator._validators[name], or the property of shapeOf it is
Take(name) ==
    /\ Len(held) < MaxHeld
    /\ name \in DOMAIN registry
    /\ \A i \in 1..Len(held) : ~(held[i].kind = "take" /\ held[i].chain = registry[name])
    /\ Taken(name, registry[name], heap)
    /\ UNCHANGED <<evaluation, serial, versions, registry, defined, again>>

\* held[i][key]: the sub-validator property of a chain held
Read(i, k) ==
    /\ Len(held) < MaxHeld
    /\ i \in 1..Len(held)
    /\ held[i].kind # "thrown"
    /\ k \in 1..Len(held[i].chain.keys)
    /\ held[i].chain.kids[k].keys = <<>>
    /\ held' = Append(held,
                   HeldChain("read", held[i].chain.svals[k].pub._name, held[i].chain.kids[k],
                             held[i].subs[k].ref, held[i].subs[k].pubref, <<>>, i, <<>>,
                             NoError))
    /\ UNCHANGED <<evaluation, serial, versions, registry, heap, defined, again>>

\* The arguments a chain is called with.
ArgLists == {<<>>, <<Lit(Num(1))>>, <<V("shapeOf.string")>>}

\* The arrays after _validatorArgHandler ran for the properties `this`
\* whose _callChain is the array ref: the copy of the call chain (popped,
\* and the new _thisCall pushed), then, for each key of
\* bindings._subValidators from the last to the first, the callChain
\* _makeValidatorProperties copies from bindings._callChain and pushes the
\* sub-validator's call on.
ArgHandlerArrays(h, this, ref, args, svals) ==
    LET a == Len(h) + 1
        n == Len(h[ref])
        thisCall == [_generateValidatorCallSignature(h[ref][n].name, h[ref][n].args,
                                                     h[ref][n]._callback)
                        EXCEPT !.args = args]
        bindings == PushLink(Pop(Concat(h, ref), a), a, thisCall)
        m == Len(svals)
    IN  bindings \o
        [j \in 1..m |->
            Append(bindings[a],
                   _generateValidatorCallSignature(svals[m - j + 1].pub._name, <<>>,
                                                   svals[m - j + 1].pub._callback))]

\* held[i](...args) returned a validator
Invoked(i, args, this) ==
    /\ heap' = ArgHandlerArrays(heap, this.chain.bound, this.ref, args, this.chain.svals)
    /\ held' = Append(held,
                   HeldChain("invoke", this.name, _validatorArgHandler(this.chain, args),
                             Len(heap) + 1, Len(heap) + 1,
                             [k \in 1..Len(this.chain.skeys) |->
                                 [ref |-> Len(heap) + 1 + (Len(this.chain.skeys) - k + 1),
                                  pubref |-> Len(heap) + 1]],
                             i, args, NoError))

\* held[i](...args) threw
\* `Validator '${this._name}' requires at least ${this._requiredArgsCount} arguments`
InvokeThrew(i, args, this) ==
    /\ held' = Append(held,
                   HeldChain("thrown", this.name, this.chain, this.ref, this.pubref, this.subs,
                             i, args,
                             [name |-> this.chain.bound._name,
                              count |-> this.chain.bound._requiredArgsCount]))
    /\ UNCHANGED heap

\* held[i](...args)
Invoke(i, args) ==
    /\ Len(held) < MaxHeld
    /\ i \in 1..Len(held)
    /\ held[i].kind # "thrown"
    /\ IF ArgHandlerThrows(held[i].chain, args)
       THEN InvokeThrew(i, args, held[i])
       ELSE Invoked(i, args, held[i])
    /\ UNCHANGED <<evaluation, serial, versions, registry, defined, again>>

InitChain ==
    /\ obj = Num(1) /\ schema = Lit(Num(1))
    /\ Start

NextChain ==
    \/ \E callback \in DefinedCallbacks, configured \in BOOLEAN, requiredArgsCount \in 0..1 :
          Define(callback, configured, requiredArgsCount)
    \/ \E name \in TakenNames : Take(name)
    \/ \E i \in 1..MaxHeld, k \in 1..2 : Read(i, k)
    \/ \E i \in 1..MaxHeld, args \in ArgLists : Invoke(i, args)

SpecChain == InitChain /\ [][NextChain]_vars

\* The validators a caller makes a schema of: the combinators, and the
\* validators whose sub-validators require arguments.
Combinators ==
    {"shapeOf.arrayOf", "shapeOf.objectOf", "shapeOf.oneOf", "shapeOf.oneOfType",
     "shapeOf.eachOf"}

GivenNames == Combinators \cup {"shapeOf.number", "shapeOf.string"}

GivenValues == {Num(1), X, Null, Arr(<<>>), Arr(<<X>>), Obj(<<"a">>, <<Num(1)>>)}

\* shapeOf(obj).shouldBe(held[i]) and the like: the chain held becomes the
\* schema of the terminal calls, with the links its _callChain arrays hold.
GiveAsSchema(i) ==
    /\ call.kind = "none"
    /\ schema = Lit(Undef)
    /\ i \in 1..Len(held)
    /\ held[i].kind # "thrown"
    /\ schema' = [held[i].chain EXCEPT !.pub._callChain = heap[held[i].pubref],
                                       !.bound._callChain = heap[held[i].ref]]
    /\ UNCHANGED <<obj, builders, arrays, chain, last, nid, lastIndex, call, aside>>

\* The caller reads a validator, once.
TakeToGive(name) ==
    /\ held = <<>>
    /\ Take(name)

\* The caller reads a sub-validator of the validator read.
ReadToGive(k) ==
    /\ Len(held) = 1
    /\ Read(1, k)

\* The caller calls the validator or sub-validator read last, once.
InvokeToGive(args) ==
    /\ held # <<>>
    /\ held[Len(held)].kind \in {"take", "read"}
    /\ Invoke(Len(held), args)

\* The terminal calls on the schema given.
ShouldBeGiven ==
    /\ schema # Lit(Undef)
    /\ ShouldBe(1)

ShouldNotBeGiven ==
    /\ schema # Lit(Undef)
    /\ ShouldNotBe(1)

InitGiven == Start /\ obj \in GivenValues /\ schema = Lit(Undef)

\* The caller reads a validator, may read a sub-validator of it, calls
\* what was read last once or not at all, and gives one of the chains held
\* as the schema of a terminal call.
NextGiven ==
    \/ \E name \in GivenNames : TakeToGive(name)
    \/ \E k \in 1..2 : ReadToGive(k)
    \/ \E args \in ArgLists : InvokeToGive(args)
    \/ \E i \in 1..3 : GiveAsSchema(i)
    \/ ShouldBeGiven
    \/ ShouldNotBeGiven

SpecGiven == InitGiven /\ [][NextGiven]_vars

---------------------------------------------------------------------------
(***************************************************************************)
(* The properties.                                                         *)
(***************************************************************************)
\* The terminal call made matched: nothing was thrown and rtn is defined.
Succeeded == call.kind # "none" /\ call.thrown = "none" /\ IsDef(call.rtn)

\* A fresh evaluation of value v against schema s, apart from the call made.
Matches(options, v, s) ==
    LET r == _shouldBe(options, v, s, NewMachine) IN ~Thrown(r.m) /\ IsDef(r.rtn)

\* The schema has a plain function in it, or a mutating one.
RECURSIVE HasFunction(_, _)
HasFunction(s, names) ==
    CASE s.k = "fn" -> s.fn \in names
      [] s.k \in {"map", "arr"} -> \E i \in 1..Len(s.kids) : HasFunction(s.kids[i], names)
      [] s.k = "val" ->
            \E i \in 1..Len(s.pub._callChain) :
                \E j \in 1..Len(s.pub._callChain[i].args) :
                    HasFunction(s.pub._callChain[i].args[j], names)
      [] OTHER -> FALSE

Mutators == {"addOneMutator", "doubleMutator", "uppercaseMutator"}

Functions == Mutators \cup {"fooValidator"}

\* The types of a validator whose first link is the given combinator.
IsCombinator(s, callback) == s.k = "val" /\ s.pub._callChain[1]._callback = callback

TypesOf(s) == _flattenArgs(s.pub._callChain[1].args)


\* C1: on a builder with no output mode, for a schema whose validators do
\* not mutate, shouldNotBe returns the boolean negation of what shouldBe
\* returns for the same value and the same schema (and raises what it
\* raises): the shouldBe call is the one made next on the same builder.
C1_ShouldNotBeNegates ==
    (call.kind = "shouldNotBe" /\ ~call.options.returnsObject /\ ~call.options.returnsResults
     /\ ~HasFunction(schema, Mutators))
        => LET r == _shouldBe(call.options, call.pre, schema,
                              [NewMachine EXCEPT !.lastIndex = lastIndex])
           IN  /\ call.thrown = r.m.thrown
               /\ ~Thrown(r.m) => /\ call.returned.t = "boolean"
                                  /\ (call.returned = Bool(TRUE)) = ~IsDef(r.rtn)

\* Some object of the value carries a key that the object map matched
\* against it does not declare: in an object map, in an array literal, or
\* as an element or value checked by arrayOf or objectOf.
RECURSIVE HasExtraneous(_, _)
HasExtraneous(v, s) ==
    CASE s.k = "map" /\ v.t = "object" ->
            \/ ExtraneousKey(v, s.keys) # ""
            \/ \E i \in 1..Len(s.keys) :
                   IsDef(Get(v, s.keys[i])) /\ HasExtraneous(Get(v, s.keys[i]), s.kids[i])
      [] s.k = "arr" /\ v.t = "array" /\ Len(v.kids) = Len(s.kids) ->
            \E i \in 1..Len(s.kids) : HasExtraneous(v.kids[i], s.kids[i])
      [] (IsCombinator(s, "_shapeOf_arrayOf") /\ v.t = "array")
         \/ (IsCombinator(s, "_shapeOf_objectOf") /\ v.t = "object") ->
            \E i \in 1..Len(v.kids) :
                /\ TypesOf(s) # <<>>
                /\ \A j \in 1..Len(TypesOf(s)) : HasExtraneous(v.kids[i], TypesOf(s)[j])
      [] OTHER -> FALSE

\* C2: shouldBeExactly rejects a value whenever an object anywhere in it
\* carries a key its object map does not declare, elements of arrayOf and
\* values of objectOf included.
C2_ExactlyRejectsExtraneous ==
    (call.kind = "shouldBeExactly" /\ HasExtraneous(call.pre, schema)) => ~Succeeded

\* The value with one more key, which no schema of the model declares.
WithUndeclaredKey(v) == Put(v, "z", Num(1))

\* oneOfType or eachOf of object maps only
ExactCombinatorOfMaps(s) ==
    /\ IsCombinator(s, "_shapeOf_oneOfType") \/ IsCombinator(s, "_shapeOf_eachOf")
    /\ \A j \in 1..Len(TypesOf(s)) : TypesOf(s)[j].k = "map"

\* C3 as stated: whatever the schema, adding an undeclared key to an object
\* that matches leaves it matching under shouldBe and makes it fail under
\* shouldBeExactly.
C3_AddedKeyAnySchema ==
    (call.kind \in {"shouldBe", "shouldBeExactly"} /\ call.pre.t = "object" /\ Succeeded)
        => (Matches(call.options, WithUndeclaredKey(call.pre), schema)
                = (call.kind = "shouldBe"))

\* C3 amended: for an object-map schema, adding an undeclared key to an
\* object that matches leaves it matching under shouldBe and makes it fail
\* under shouldBeExactly; for oneOfType or eachOf of object maps, which
\* match exactly, it makes it fail under shouldBe as well.
C3_AddedKeyObjectMap ==
    (call.kind \in {"shouldBe", "shouldBeExactly"} /\ call.pre.t = "object" /\ Succeeded)
        => /\ schema.k = "map"
                => (Matches(call.options, WithUndeclaredKey(call.pre), schema)
                        = (call.kind = "shouldBe"))
           /\ ExactCombinatorOfMaps(schema)
                => ~Matches(call.options, WithUndeclaredKey(call.pre), schema)

C3_Witness ==
    /\ call.kind = "shouldBeExactly" /\ Succeeded /\ call.pre.t = "object"
    /\ schema.k = "map" /\ Len(schema.keys) = 2 /\ Len(call.pre.keys) = 2

\* The schema nodes made optional: shapeOf.optional.number, and its range
\* specialized with arguments.
OptionalNodes == {V("shapeOf.optional.number"), OptionalRange}

\* The field of an object-map schema is satisfied by the value: absent and
\* optional, or present and matching.
FieldSatisfied(options, v, s, i) ==
    IF IsDef(Get(v, s.keys[i]))
    THEN Matches([options EXCEPT !.returnsObject = TRUE], Get(v, s.keys[i]), s.kids[i])
    ELSE s.kids[i] \in OptionalNodes

RECURSIVE ValueAt(_, _)
ValueAt(v, path) == IF path = <<>> THEN v ELSE ValueAt(Get(v, Head(path)), Tail(path))

IsPrefix(p, q) == Len(p) <= Len(q) /\ SubSeq(q, 1, Len(p)) = p

\* A later return changed what the i-th return put at its position: one
\* at the same position or inside it, or one of an enclosing position
\* whose value differs there.
Replaced(muts, i) ==
    \E j \in (i + 1)..Len(muts) :
        \/ IsPrefix(muts[i].path, muts[j].path)
        \/ /\ IsPrefix(muts[j].path, muts[i].path)
           /\ ValueAt(muts[j].val,
                      SubSeq(muts[i].path, Len(muts[j].path) + 1, Len(muts[i].path)))
                # muts[i].val

\* C5: when the call succeeds, the input holds, at the position of every
\* field or element whose validator returned a value different from the
\* one it received, the value returned (the last one, where several
\* validators returned one for the same position).
C5_MutationPropagates ==
    (call.kind \in {"shouldBe", "shouldBeExactly"} /\ Succeeded /\ call.pre.t \in {"object", "array"})
        => \A i \in 1..Len(call.muts) :
               (call.muts[i].field /\ ~Replaced(call.muts, i))
                   => ValueAt(obj, call.muts[i].path) = call.muts[i].val

\* The callbacks of one kind among the events of the call, in order.
EventsOf(kind) == SelectSeq(call.ev, LAMBDA e : e.kind = kind)

\* The invocations the registered callbacks of one kind are due: one each,
\* in registration order, with the top-level value and schema.
Due(kind, callbacks) ==
    [i \in 1..Len(callbacks) |->
        [kind |-> kind, callback |-> callbacks[i], obj |-> call.pre, schema |-> schema]]

\* The top-level value matches the schema, whatever the call does about it.
TopLevelMatches ==
    Matches([NoCallOptions EXCEPT !.exact = call.options.exact], call.pre, schema)

\* C6: in a terminal call with throwsOnInvalid whose value does not match,
\* every onInvalid callback is invoked before the error is raised and no
\* onComplete callback is invoked at any point of the call.
C6_NoCompleteWhenThrown ==
    (call.kind # "none" /\ call.options.throwsOnInvalid /\ call.thrown # "none")
        => /\ \A i \in 1..Len(call.options.onInvalid) :
                  \E e \in 1..Len(call.ev) :
                      call.ev[e].kind = "onInvalid"
                      /\ call.ev[e].callback = call.options.onInvalid[i]
           /\ EventsOf("onComplete") = <<>>

\* C7: in a terminal call the onValid callbacks are invoked only if the
\* top-level value matches and the onInvalid callbacks only if it does
\* not, each once, in registration order, with the top-level value and
\* schema.
C7_CallbacksTopLevelOnly ==
    call.kind # "none"
        => /\ EventsOf("onValid")
                = (IF TopLevelMatches THEN Due("onValid", call.options.onValid) ELSE <<>>)
           /\ EventsOf("onInvalid")
                = (IF TopLevelMatches THEN <<>> ELSE Due("onInvalid", call.options.onInvalid))

\* C8: a terminal call of a builder with throwsOnInvalid raises the
\* payload supplied on the way to the builder when the value does not
\* match, the generic error when none was supplied, and nothing when the
\* value matches.
C8_RaisesThePayload ==
    (call.kind # "none" /\ builders[call.b].throwsOnInvalid)
        => call.thrown =
              (IF TopLevelMatches THEN "none"
               ELSE IF builders[call.b].regError # "undefined" THEN builders[call.b].regError
               ELSE "Invalid shape detected")

\* C9: without throwsOnInvalid a terminal call raises nothing, for every
\* value and every schema of literals, object maps, array literals and
\* built-in validators.
C9_NeverRaises ==
    (call.kind \in {"shouldBe", "shouldBeExactly"} /\ ~call.options.throwsOnInvalid
     /\ ~HasFunction(schema, Functions))
        => call.thrown = "none"

\* The callbacks registered on the way to a builder, by kind.
RegisteredOn(builder, kind) ==
    CASE kind = "onValid" -> builder.regValid
      [] kind = "onInvalid" -> builder.regInvalid
      [] OTHER -> builder.regComplete

\* C10: whatever builders were derived from a builder, a terminal call of
\* it invokes only the callbacks, and raises only the payload, registered
\* on the way to it.
C10_BuildersUnchanged ==
    call.kind # "none"
        => /\ \A e \in 1..Len(call.ev) :
                  \E i \in 1..Len(RegisteredOn(builders[call.b], call.ev[e].kind)) :
                      RegisteredOn(builders[call.b], call.ev[e].kind)[i] = call.ev[e].callback
           /\ call.thrown \in {"none", "Invalid shape detected", builders[call.b].regError}

\* C11: for a schema that shapeOf.serialize accepts (one without a plain
\* function, which has no descriptor), deserializing the descriptor and
\* serializing the result again raises nothing and gives a descriptor
\* identical to the first one.
C11_RoundTripIdentical ==
    (serial.stage # "none" /\ ~HasFunction(serial.from, Functions))
        => /\ serial.thrown = "none"
           /\ serial.stage = "reserialized" => serial.text = serial.first

\* The schema the serialization started from.
SerialSource == IF serial.stage = "none" THEN schema ELSE serial.from

\* C12: for a schema built from literals (null included), object maps,
\* array literals, regular expressions and validator chains, serializing
\* and deserializing raise nothing, and the schema deserialized accepts a
\* value exactly when the schema serialized accepts it.
C12_RoundTripAccepts ==
    ~HasFunction(SerialSource, Functions)
        => /\ serial.stage \in {"none", "serialized"} => serial.thrown = "none"
           /\ (serial.stage = "deserialized" /\ call.kind # "none")
                => (Succeeded <=> Matches(call.options, call.pre, serial.from))

\* The components of a version string of three numbers.
Components(ver) == LET parts == Split(ver, ".", 1, <<<<>>>>) IN [i \in 1..3 |-> parseInt(parts[i])]

IsTriple(ver) == Len(Split(ver, ".", 1, <<<<>>>>)) = 3

\* a >= b under major.minor.patch precedence
AtLeast(a, b) ==
    \/ a[1] > b[1]
    \/ a[1] = b[1] /\ a[2] > b[2]
    \/ a[1] = b[1] /\ a[2] = b[2] /\ a[3] >= b[3]

\* C13: for two versions of three numbers, _isCompatibileVersion(current,
\* compatible) is true exactly when current >= compatible under
\* major.minor.patch precedence, and shapeOf.deserialize accepts an
\* envelope exactly when its schema version is at most the running
\* compatibleSchemaVersion and otherwise raises the error of incompatible
\* versions.
C13_VersionPrecedence ==
    (IsTriple(versions.currentVer) /\ IsTriple(versions.compatibleVer))
        => /\ versions.checked
                => /\ versions.thrown = "none"
                   /\ versions.rtn <=> AtLeast(Components(versions.currentVer),
                                               Components(versions.compatibleVer))
           /\ versions.deserialized
                => versions.raised =
                      IF AtLeast(Components(compatibleSchemaVersion),
                                 Components(versions.compatibleVer))
                      THEN "none" ELSE "Incompatible schema versions"

\* The arrays a chain held refers to have the elements they had when the
\* caller got the chain.
Unmutated(e) ==
    /\ heap[e.ref] = e.chain.bound._callChain
    /\ heap[e.pubref] = e.chain.pub._callChain
    /\ \A k \in 1..Len(e.subs) :
          /\ heap[e.subs[k].ref] = e.chain.kids[k].bound._callChain
          /\ heap[e.subs[k].pubref] = e.chain.kids[k].pub._callChain

\* The link list of a validator is its _callChain property, the one
\* _executeValidator and _serializeValidator read.
LinksOf(validator) == validator.pub._callChain

\* The chain an invocation returned has as many links as the one invoked,
\* the same links before the last, and the arguments given in the last.
Respecialized(new, original) ==
    /\ Len(LinksOf(new.chain)) = Len(LinksOf(original.chain))
    /\ SubSeq(LinksOf(new.chain), 1, Len(LinksOf(new.chain)) - 1)
          = SubSeq(LinksOf(original.chain), 1, Len(LinksOf(original.chain)) - 1)
    /\ LinksOf(new.chain)[Len(LinksOf(new.chain))].args = new.args

\* C14: calling a validator chain with arguments mutates nothing reachable
\* from the chains held before or from the registry (every array they
\* refer to keeps its links and their arguments, every entry registered
\* when the library loaded is as it was), and the chain returned has the
\* same number of links as the chain called, identical earlier links and a
\* last link whose arguments are the ones supplied.
C14_InvocationFrame ==
    /\ \A name \in DOMAIN _validators : registry[name] = _validators[name]
    /\ \A i \in 1..Len(held) :
          /\ Unmutated(held[i])
          /\ held[i].kind = "invoke" => Respecialized(held[i], held[held[i].from])

\* The first half of C14 alone.
C14_NothingMutated ==
    /\ \A name \in DOMAIN _validators : registry[name] = _validators[name]
    /\ \A i \in 1..Len(held) : Unmutated(held[i])

\* A chain with sub-validators was called with arguments, twice.
C14_Reached ==
    \E i, j \in 1..Len(held) :
        /\ i # j /\ held[i].kind = "invoke" /\ held[j].kind = "invoke"
        /\ held[i].from = held[j].from /\ held[i].args # <<>>
        /\ held[held[i].from].subs # <<>>

\* The entry of _coreValidators a core validator (or its optional twin) was
\* generated from.
CoreEntryOf(name) ==
    _coreValidators[CHOOSE i \in 1..Len(_coreValidators) :
                        name \in {_coreValidators[i].name, _coreValidators[i].optName}]

\* The required-argument count of the validator registered by a name, as
\* stated: the requiredArgsCount its options were given, or its callback's
\* arity minus one (at least 0) when they were given none.
StatedCount(name) ==
    IF name = DefinedName
    THEN IF defined.configured THEN defined.requiredArgsCount
         ELSE Max(0, CallbackLength(defined.callback) - 1)
    ELSE IF CoreEntryOf(name).requiredArgsCount # 0 THEN CoreEntryOf(name).requiredArgsCount
         ELSE Max(0, CallbackLength(CoreEntryOf(name).callback) - 1)

\* C15: a call of a validator chain raises an error exactly when it is
\* given fewer arguments than the chain's required-argument count (the
\* configured requiredArgsCount, or the callback's arity minus one, at
\* least 0, when none is configured); the error names the validator by its
\* registered name, and no chain is produced.
C15_RequiredArguments ==
    \A j \in 1..Len(held) :
        held[j].kind \in {"invoke", "thrown"}
            => /\ held[j].kind = "thrown"
                    <=> Len(held[j].args) < StatedCount(held[held[j].from].name)
               /\ held[j].kind = "thrown" => held[j].error.name = held[held[j].from].name

\* C15 for the validators whose options give no count or a positive one.
C15_CountNotZero ==
    (defined.configured => defined.requiredArgsCount # 0) => C15_RequiredArguments

\* Each element (or value) of v matches at least one of the types of the
\* arrayOf or objectOf validator s.
EachMatchesSome(v, s) ==
    \A j \in 1..Len(v.kids) :
        \E i \in 1..Len(TypesOf(s)) : Matches(ReturnsObjectOptions, v.kids[j], TypesOf(s)[i])

\* What arrayOf and objectOf accept, as stated.
OfAccepts(v, s) ==
    /\ IF IsCombinator(s, "_shapeOf_arrayOf") THEN v.t = "array" ELSE v.t \in {"array", "object"}
    /\ EachMatchesSome(v, s)

\* C16: shouldBe with arrayOf(T1..Tn) succeeds exactly for a list each of
\* whose elements matches at least one Ti, and with objectOf(T1..Tn)
\* exactly for a non-null object each of whose values matches at least one
\* Ti, lists of length 0 and objects without keys included.
C16_ArrayOfObjectOf ==
    (call.kind = "shouldBe"
     /\ (IsCombinator(schema, "_shapeOf_arrayOf") \/ IsCombinator(schema, "_shapeOf_objectOf")))
        => (Succeeded <=> OfAccepts(call.pre, schema))

\* C16 for the lists and objects that have an element.
C16_NotEmpty ==
    Len(call.pre.kids) > 0 => C16_ArrayOfObjectOf

\* The validators shapeOf.primitive stands for.
PrimitiveValidators ==
    {V("shapeOf.string"), V("shapeOf.bool"), V("shapeOf.number"), V("shapeOf.null")}

\* C17: shouldBe with shapeOf.primitive succeeds exactly for the values
\* that at least one of shapeOf.string, shapeOf.bool, shapeOf.number and
\* shapeOf.null accepts (the empty string, false and 0 among them, no list
\* and no object), and what it gives back is the value it was given.
C17_Primitive ==
    (call.kind = "shouldBe" /\ schema = V("shapeOf.primitive"))
        => /\ Succeeded <=> \E p \in PrimitiveValidators : Matches(call.options, call.pre, p)
           /\ Succeeded => call.rtn = call.pre

\* C17 for the values that are not falsy strings, booleans or numbers.
C17_TruthyOrNull ==
    (Truthy(call.pre) \/ call.pre.t = "null") => C17_Primitive

\* The last entry of the log is a failure entry.
EndsWithFailure(log) ==
    /\ Len(log) > 0
    /\ log[Len(log)].message \in
          {"Failed: Validator", "Failed: Validation using functional validator",
           "Failed: Array", "Failed: Object", "Failed: Strict equality"}

\* What the call returns for the same value on the builder with
\* returnsObject toggled instead: the value with its mutations.
ObjectReturned(options, v, s) ==
    _shouldBe([options EXCEPT !.returnsObject = TRUE, !.returnsResults = FALSE],
              v, s, NewMachine).rtn

\* C18: a shouldBe or shouldBeExactly call on a builder with returnsResults
\* toggled returns a record {success, log, obj}; success is true exactly
\* when the value matched, the log of a call that did not match ends with
\* the failure of the value, and obj is the value including its mutations,
\* which for a value that matched is the value returnsObject gives (the
\* returned value of a top-level validator that returns another value
\* than it received).
C18_ResultsRecord ==
    (call.kind \in {"shouldBe", "shouldBeExactly"} /\ call.options.returnsResults
     /\ call.thrown = "none")
        => /\ ObjectKeys(call.returned) = <<"success", "obj">>
           /\ Get(call.returned, "success") = Bool(Succeeded)
           /\ ~Succeeded => EndsWithFailure(call.log)
           /\ Succeeded => Get(call.returned, "obj")
                                = ObjectReturned(call.options, call.pre, schema)

\* C18 for the schemas without a mutating function.
C18_NoMutator ==
    ~HasFunction(schema, Mutators) => C18_ResultsRecord

\* The schema has a RegExp object with the global flag in it.
RECURSIVE HasGlobalRegExp(_)
HasGlobalRegExp(s) ==
    CASE s.k = "lit" -> s.lit.t = "regexp" /\ IndexOf(s.lit.keys, "g") # 0
      [] s.k \in {"map", "arr"} -> \E i \in 1..Len(s.kids) : HasGlobalRegExp(s.kids[i])
      [] s.k = "val" ->
            \E i \in 1..Len(s.pub._callChain) :
                \E j \in 1..Len(s.pub._callChain[i].args) :
                    HasGlobalRegExp(s.pub._callChain[i].args[j])
      [] OTHER -> FALSE

\* C19: for a schema whose validators do not mutate, the same terminal
\* call made twice in a row on the same value and the same schema object
\* returns the same result (and raises the same) both times, also when
\* the schema holds shapeOf.string.pattern given a RegExp object with the
\* global flag.
C19_Deterministic ==
    (again.kind # "none" /\ ~HasFunction(schema, Mutators))
        => /\ again.returned = call.returned
           /\ again.thrown = call.thrown

\* C19 for the schemas without a RegExp object that has the global flag.
C19_NoGlobalFlag ==
    ~HasGlobalRegExp(schema) => C19_Deterministic

\* The log has an entry of eachOf that names the sub-schema that failed.
NamesFailingSubSchema(log) ==
    \E i \in 1..Len(log) :
        log[i].message \in {"Failed: Validator 'shapeOf.eachOf' ->",
                            "Failed: Validator 'shapeOf.eachOf' -> index"}

\* C20: when a terminal call with returnsResults toggled evaluates
\* eachOf(S1..Sn) and some Si rejects the value, the log of the record
\* returned has an entry "Failed: Validator 'shapeOf.eachOf' -> ..." with
\* the validator name or the index of Si.
C20_EachOfLogged ==
    (call.kind \in {"shouldBe", "shouldBeExactly"} /\ call.options.returnsResults
     /\ call.thrown = "none" /\ IsCombinator(schema, "_shapeOf_eachOf")
     /\ \E i \in 1..Len(TypesOf(schema)) : ~Matches(ExactlyOptions, call.pre, TypesOf(schema)[i]))
        => NamesFailingSubSchema(call.log)

\* No log of a terminal call has an entry that eachOf wrote.
C20_NeverLogged ==
    \A i \in 1..Len(call.log) :
        call.log[i].message \notin {"Failed: Validator 'shapeOf.eachOf' ->",
                                    "Failed: Validator 'shapeOf.eachOf' -> index",
                                    "Passed: Validator 'shapeOf.eachOf'"}

\* The bounds and the parent of a range validator as the schema holds them.
RangeMin(s) == s.pub._callChain[2].args[1].lit

RangeMax(s) == s.pub._callChain[2].args[2].lit

RangeParent(s) == s.pub._callChain[1].name

\* v lies between the two numbers inclusive, whichever is the smaller.
Between(a, b, v) ==
    \/ Twice(a) <= Twice(v) /\ Twice(v) <= Twice(b)
    \/ Twice(b) <= Twice(v) /\ Twice(v) <= Twice(a)

IsSubOf(validator, parent, name, args) ==
    /\ LinksOf(validator)
          = LinksOf(parent)
            \o <<_generateValidatorCallSignature(name, args, registry[name].pub._callback)>>
    /\ validator.pub._name = name
    /\ validator.pub._callback = registry[name].pub._callback
    /\ validator.pub._requiredArgsCount = StatedCount(name)

\* C22: after a parent chain was called with arguments, each sub-validator
\* exposed on the chain returned, as read from the property and as
\* returned by its own call with arguments, has the link list of the
\* parent's new links followed by its own link, and the sub-validator's
\* own name, callback and required-argument count.
C22_SubValidatorsRebuilt ==
    \A j \in 1..Len(held) :
        /\ (held[j].kind = "read" /\ held[held[j].from].kind = "invoke")
              => IsSubOf(held[j].chain, held[held[j].from].chain, held[j].name, <<>>)
        /\ (held[j].kind = "invoke" /\ held[held[j].from].kind = "read"
            /\ held[held[held[j].from].from].kind = "invoke")
              => IsSubOf(held[j].chain, held[held[held[j].from].from].chain, held[j].name,
                         held[j].args)

\* C22 for the sub-validators that were called with their own arguments.
C22_AfterItsCall ==
    \A j \in 1..Len(held) :
        (held[j].kind = "invoke" /\ held[held[j].from].kind = "read"
         /\ held[held[held[j].from].from].kind = "invoke")
            => IsSubOf(held[j].chain, held[held[held[j].from].from].chain, held[j].name,
                       held[j].args)

\* A sub-validator read from a called chain was called with arguments.
C22_Reached ==
    \E j \in 1..Len(held) :
        /\ held[j].kind = "invoke" /\ held[held[j].from].kind = "read"
        /\ held[held[held[j].from].from].kind = "invoke"
        /\ held[held[held[j].from].from].args # <<>>

\* The link callbacks the terminal call's own _executeValidator invoked:
\* those of the evaluation whose link returned last.
TopLinks == SelectSeq(call.links, LAMBDA l : l.depth = call.links[Len(call.links)].depth)

\* The validator chain with its last link taken off: X of X.r(args).
Refined(s) == [s EXCEPT !.pub._callChain = SubSeq(@, 1, Len(@) - 1)]

C23_WitnessAccepted ==
    /\ call.kind = "shouldBe" /\ schema.k = "val" /\ Len(LinksOf(schema)) = 2
    /\ Len(TopLinks) = 2 /\ Succeeded

\* C24: an object-map schema rejects every value that is not a key-value
\* mapping: a non-object, null or a list, whatever fields the schema has.
C24_MappingsOnly ==
    (call.kind \in {"shouldBe", "shouldBeExactly"} /\ schema.k = "map"
     /\ call.pre.t # "object")
        => ~Succeeded

\* The same for the values that are not objects to typeof, and null.
C24_NonObjectsRejected ==
    (call.kind \in {"shouldBe", "shouldBeExactly"} /\ schema.k = "map"
     /\ call.pre.t \notin {"object", "array"})
        => ~Succeeded

\* A scalar or null was given to an object-map schema with no field.
C24_Reached ==
    /\ call.kind = "shouldBe" /\ schema.k = "map" /\ schema.keys = <<>>
    /\ call.pre.t \in {"null", "string"}

\* C25: a scalar literal schema (a string, number, boolean or null)
\* accepts a value exactly when the value is strictly equal to the
\* literal; the literal null accepts null and nothing else.
C25_StrictEquality ==
    (call.kind \in {"shouldBe", "shouldBeExactly"} /\ schema.k = "lit"
     /\ schema.lit.t \in {"string", "number", "boolean", "null"})
        => Succeeded <=> call.pre = schema.lit

\* The same for the literals other than null.
C25_NotNull ==
    (call.kind \in {"shouldBe", "shouldBeExactly"} /\ schema.k = "lit"
     /\ schema.lit.t \in {"string", "number", "boolean"})
        => Succeeded <=> call.pre = schema.lit

\* A number literal was given the number it is.
C25_Reached ==
    /\ call.kind = "shouldBe" /\ schema.k = "lit" /\ schema.lit.t = "number"
    /\ call.pre = schema.lit /\ Succeeded

\* The schema is a chain a call returned: with any arguments, and with
\* one argument at least.
GivenCalled ==
    \E i \in 1..Len(held) :
        held[i].kind = "invoke" /\ LinksOf(schema) = heap[held[i].pubref]

GivenCalledWith ==
    \E i \in 1..Len(held) :
        /\ held[i].kind = "invoke" /\ LinksOf(schema) = heap[held[i].pubref]
        /\ held[i].args # <<>>

\* C26: each combinator (arrayOf, objectOf, oneOf, oneOfType, eachOf)
\* signals its zero-type-arguments error when it is called with no
\* arguments, and never during a later terminal call; a combinator never
\* throws for a mismatch.
C26_ConstructionTime ==
    /\ \A i \in 1..Len(held) :
          (held[i].kind \in {"invoke", "thrown"} /\ held[i].name \in Combinators
           /\ held[i].args = <<>>)
              => held[i].kind = "thrown"
    /\ (call.kind # "none" /\ schema.k = "val" /\ schema.pub._name \in Combinators
        /\ GivenCalled)
          => call.thrown = "none"

\* C26 for the combinators with a configured requiredArgsCount, and for
\* the terminal calls on combinators that were given a type.
C26_Configured ==
    /\ \A i \in 1..Len(held) :
          (held[i].kind \in {"invoke", "thrown"}
           /\ held[i].name \in {"shapeOf.oneOf", "shapeOf.oneOfType", "shapeOf.eachOf"}
           /\ held[i].args = <<>>)
              => held[i].kind = "thrown"
    /\ (call.kind # "none" /\ schema.k = "val" /\ schema.pub._name \in Combinators
        /\ GivenCalledWith)
          => call.thrown = "none"

\* A combinator given a type rejected a value.
C26_Reached ==
    /\ call.kind = "shouldBe" /\ schema.k = "val" /\ schema.pub._name \in Combinators
    /\ GivenCalledWith /\ ~Succeeded /\ call.thrown = "none"

\* The link carries fewer bound arguments than the required-argument count
\* of the validator it is a call of.
Deficient(link) == Len(link.args) < StatedCount(link.name)

\* The chain's execution came to link j: every link before it returned a
\* defined value.
CameTo(j) == \A i \in 1..(j - 1) : i <= Len(TopLinks) /\ IsDef(TopLinks[i].rtn)

\* C27: a terminal call on a chain that comes to a link with fewer bound
\* arguments than its validator requires raises an error instead of
\* returning a pass/fail result.
C27_MissingArguments ==
    (call.kind # "none" /\ schema.k = "val")
        => \A j \in 1..Len(LinksOf(schema)) :
               (Deficient(LinksOf(schema)[j]) /\ CameTo(j)) => call.thrown # "none"

\* What the chains do instead: no call raises for the missing arguments
\* as such; the callbacks are called with what there is.
C27_CallbackCalled ==
    (call.kind # "none" /\ schema.k = "val")
        => \A j \in 1..Len(LinksOf(schema)) :
               (Deficient(LinksOf(schema)[j]) /\ CameTo(j))
                   => /\ Len(TopLinks) >= j
                      /\ TopLinks[j].args = LinksOf(schema)[j].args

\* number.min, not called, was the schema for a number.
C27_Reached ==
    /\ call.kind = "shouldBe" /\ schema.k = "val"
    /\ Len(LinksOf(schema)) = 2 /\ LinksOf(schema)[2].name = "shapeOf.number.min"
    /\ LinksOf(schema)[2].args = <<>>
    /\ call.pre.t = "number"

\* The builders _buildActions makes eagerly are those of the toggles that
\* are properties: returnsObject, returnsResults and throwsOnInvalid.
PropertyToggles == {"returnsObject", "returnsResults", "throwsOnInvalid"}

\* The number of property toggles between shapeOf(obj) and builder b.
RECURSIVE TogglesTo(_)
TogglesTo(b) ==
    IF builders[b].parent = 0 THEN 0
    ELSE TogglesTo(builders[b].parent)
         + (IF builders[b].via \in PropertyToggles THEN 1 ELSE 0)

\* C28: a builder with returnsObject or returnsResults applied offers
\* neither of the two, a builder with throwsOnInvalid applied does not
\* offer throwsOnInvalid, and both hold of every builder derived from
\* them; no builder and no terminal call has both output modes set; and a
\* builder is at most two property toggles away from shapeOf(obj), so the
\* tree of builders built eagerly is finite.
C28_OutputModesExclusive ==
    /\ \A b \in DOMAIN builders :
          /\ (builders[b].returnsObject \/ builders[b].returnsResults)
                => {"returnsObject", "returnsResults"} \subseteq _buildExclusions(builders[b])
          /\ builders[b].throwsOnInvalid => "throwsOnInvalid" \in _buildExclusions(builders[b])
          /\ ~(builders[b].returnsObject /\ builders[b].returnsResults)
          /\ builders[b].parent # 0
                => /\ builders[builders[b].parent].returnsObject => builders[b].returnsObject
                   /\ builders[builders[b].parent].returnsResults => builders[b].returnsResults
                   /\ builders[builders[b].parent].throwsOnInvalid
                         => builders[b].throwsOnInvalid
          /\ builders[b].via = "returnsObject" => builders[b].returnsObject
          /\ builders[b].via = "returnsResults" => builders[b].returnsResults
          /\ builders[b].via = "throwsOnInvalid" => builders[b].throwsOnInvalid
          /\ TogglesTo(b) <= 2
    /\ call.kind # "none" => ~(call.options.returnsObject /\ call.options.returnsResults)

\* A terminal call was made on a builder with an output mode and
\* throwsOnInvalid applied and a callback registered after them.
C28_Witness ==
    /\ call.kind # "none"
    /\ builders[call.b].returnsResults /\ builders[call.b].throwsOnInvalid
    /\ builders[call.b].via \in {"onValid", "onInvalid", "onComplete"}
    /\ TogglesTo(call.b) = 2

\* C29: when a terminal call has finished, by a return or by a throw, the
\* chain of options in flight has the depth it had before the call (none:
\* the call is the first one made), and after each nested evaluation
\* returned the last options were those of the enclosing evaluation.
C29_ChainBalanced ==
    call.kind # "none"
        => /\ chain = <<>>
           /\ \A i \in 1..Len(call.pops) :
                  call.pops[i].top # 0 => call.pops[i].last = call.pops[i].top

\* The balance of C29 for the calls that returned.
C29_BalancedOnReturn == (call.kind # "none" /\ call.thrown = "none") => chain = <<>>

\* The balance of C29 for the calls that raised.
C29_BalancedOnThrow == (call.kind # "none" /\ call.thrown # "none") => chain = <<>>

\* The last options of C29 after a nested evaluation.
C29_LastIsEnclosing ==
    call.kind # "none"
        => \A i \in 1..Len(call.pops) :
               call.pops[i].top # 0 => call.pops[i].last = call.pops[i].top

\* A terminal call with nested evaluations raised by throwsOnInvalid.
C29_Reached ==
    /\ call.kind # "none" /\ call.options.throwsOnInvalid /\ call.thrown # "none"
    /\ call.pops # <<>>

\* C30: a terminal call whose value does not match the schema leaves the
\* value as it was: no field and no element holds a validator's returned
\* value in place of its own.
C30_FailureLeavesInput ==
    (call.kind # "none" /\ call.thrown = "none" /\ ~IsDef(call.rtn)) => obj = call.pre

\* C30 for the failing calls in which no validator returned a value other
\* than the one it received.
C30_WithoutMutation ==
    (call.kind # "none" /\ call.thrown = "none" /\ ~IsDef(call.rtn) /\ call.muts = <<>>)
        => obj = call.pre

\* A call failed after a validator had returned a new value for a field.
C30_Reached ==
    /\ call.kind # "none" /\ call.thrown = "none" /\ ~IsDef(call.rtn)
    /\ call.muts # <<>> /\ call.pre.t = "object"

=============================================================================
